---- MODULE Spec2Model ----
(***************************************************************************)
(* A model of the gosc-vm interpreter (src/cpu/cpu.go): the CPU state, the *)
(* loader and one action per opcode handler of CPU.Run; of the lexer       *)
(* (package lexer), one action per turn of its loops; and of the assembler *)
(* (package compiler), one action per token handler and per backpatch.     *)
(*                                                                         *)
(* Memory is kept sparse: `mem` maps the addresses that were ever written  *)
(* to their byte, every other address of the 0xFFFF-byte array reads 0.    *)
(* Strings are sequences of code points (readString turns every memory     *)
(* byte into one rune).  Program output is the sequence of code points     *)
(* written by the opcode handlers; the diagnostic a trap prints before the *)
(* process exits is kept in `diag`.                                        *)
(***************************************************************************)
EXTENDS Integers, Sequences, FiniteSets, TLC

\* ------------------------------------------------------------ constants

\* mem [0xFFFF]byte
MEMSIZE == 65535
\* regs [16]Register
NREGS == 16

EXIT == 0
INT_STORE == 1
INT_PRINT == 2
INT_TOSTRING == 3
INT_RANDOM == 4
JUMP == 16
JUMP_Z == 17
JUMP_NZ == 18
XOR == 19
ADD == 33
SUB == 34
MUL == 35
DIV == 36
INC == 37
DEC == 38
AND == 39
OR == 40
STORE_STRING == 48
PRINT_STRING == 49
STRING_CONCAT == 50
SYSTEM == 51
STRING_TOINT == 52
CMP_REG == 64
CMP_IMMEDIATE == 65
CMP_STR == 66
IS_STRING == 67
IS_INT == 68
NOP == 80
STORE == 81
PEEK == 96
POKE == 97
MEMCPY == 98
PUSH == 112
POP == 113
RET == 114
CALL == 115

Opcodes ==
    { EXIT, INT_STORE, INT_PRINT, INT_TOSTRING, INT_RANDOM, JUMP, JUMP_Z,
      JUMP_NZ, XOR, ADD, SUB, MUL, DIV, INC, DEC, AND, OR, STORE_STRING,
      PRINT_STRING, STRING_CONCAT, SYSTEM, STRING_TOINT, CMP_REG,
      CMP_IMMEDIATE, CMP_STR, IS_STRING, IS_INT, NOP, STORE, PEEK, POKE,
      MEMCPY, PUSH, POP, RET, CALL }

\* ------------------------------------------------------------ bounds

\* Instructions of the menu concatenated into one generated image.
MaxInstr == 2
\* Instructions one Run executes before the model stops following it.
MaxSteps == 8

\* ------------------------------------------------------------ state

\* The CPU (mem, regs, z, ip, stack), what the process printed (out, diag)
\* and how it stands (status: "new", "running", "halted" once Run returned,
\* "fatal" after os.Exit, "panic" after a runtime panic).  image is the
\* byte slice LoadBytes was given, steps counts the instructions Run has
\* executed, wrapped tells whether the last one ended in the wrap-around
\* branch.
VARIABLES mem, regs, z, ip, stack, status, out, diag, image, steps, wrapped

\* LoadBytes / LoadFile calls this CPU has served, and the length of the
\* byte slice the last of them was given.
VARIABLES loads, size

cpuVars ==
    <<mem, regs, z, ip, stack, status, out, diag, image, steps, wrapped,
      loads, size>>

\* The lexer: its four fields; where NextToken stands (lexing: "off" when no
\* lexer was made, "idle" between two calls, else the loop it is in); the
\* position a read loop started at (pos); the text a call has gathered so
\* far (text); the tokens returned so far (tokens).
VARIABLES characters, position, readPosition, ch, lexing, pos, text, tokens

lexVars ==
    <<characters, position, readPosition, ch, lexing, pos, text, tokens>>

\* The assembler: the tokens its lexer has still to return (stream), its
\* fields, where Compile stands (phase: "off", "compile", "backpatch",
\* "done", "exit" after os.Exit, "panic"), the fixups the closing loop has
\* still to visit (pending) and the bytecode as the main pass left it
\* (emitted).
VARIABLES stream, curToken, peekToken, bytecode, labels, fixups, phase,
          pending, emitted

asmVars ==
    <<stream, curToken, peekToken, bytecode, labels, fixups, phase, pending,
      emitted>>

vars == <<cpuVars, lexVars, asmVars>>

\* The CPU as one record, the form the handlers below work on.
CPU ==
    [mem |-> mem, regs |-> regs, z |-> z, ip |-> ip, stack |-> stack,
     status |-> status, out |-> out, diag |-> diag]

\* ------------------------------------------------------------ helpers

Abs(x) == IF x < 0 THEN -x ELSE x

\* An index the Go runtime accepts for c.mem.
MemOK(a) == a >= 0 /\ a < MEMSIZE

\* c.mem[a] for a valid index a.
Mem(m, a) == IF a \in DOMAIN m THEN m[a] ELSE 0

\* c.mem[a] = byte v
MemSet(m, a, v) == [x \in (DOMAIN m) \cup {a} |-> IF x = a THEN v ELSE m[x]]

\* The n bytes at a .. a+n-1 can all be indexed.
CanRead(a, n) == a >= 0 /\ a + n <= MEMSIZE

\* A runtime panic (index out of range) with the IP where it happened.
Panic(c, newip) ==
    [c EXCEPT !.status = "panic", !.ip = newip,
              !.diag = "index out of range"]

\* Trap without the os.Exit: the diagnostic is printed and Run goes on.
TrapContinue(c, msg) == [c EXCEPT !.diag = msg]

\* fmt.Printf of a diagnostic followed by os.Exit.
Trap(c, msg) == [c EXCEPT !.status = "fatal", !.diag = msg]

ErrGetInt == "Error: Attempting to call GetInt on a register holding a non-integer value."
ErrGetString == "Error: Attempting to call GetString on a register holding a non-string value."
ErrDivZero == "Attempting to divide by zero - denying"
ErrUnderflow == "Stack Underflow!"
ErrOpcode == "Unrecognized/Unimplemented opcode"
ErrAtoi == "Failed to convert to int"
ErrTooLarge == "Program too large for RAM!"

\* ------------------------------------------------------------ registers

IsInt(r) == r.t = "int"
IsString(r) == r.t = "string"
SetIntKeepsKind(r, v) == [r EXCEPT !.i = v]
SetInt(r, v) == [r EXCEPT !.i = v, !.t = "int"]
SetString(r, v) == [r EXCEPT !.s = v, !.t = "string"]
RegOK(n) == n >= 0 /\ n < NREGS

\* ------------------------------------------------------------ stack

Empty(s) == Len(s) <= 0
Push(s, value) == Append(s, value)
\* Pop taking the entry at the back.
PopValueLast(s) == s[Len(s)]

\* Pop returns s.entries[0] and keeps s.entries[1:].
PopValue(s) == s[1]
PopRest(s) == SubSeq(s, 2, Len(s))

\* ------------------------------------------------------------ arithmetic

\* Go's integer division truncates toward zero.
GoDiv(a, b) ==
    IF (a >= 0) = (b > 0) THEN Abs(a) \div Abs(b) ELSE -(Abs(a) \div Abs(b))

\* Bitwise operators on two's-complement integers, bit by bit.
RECURSIVE BitAnd(_, _)
BitAnd(a, b) ==
    IF a \in {0, -1} /\ b \in {0, -1}
    THEN (IF a = -1 /\ b = -1 THEN -1 ELSE 0)
    ELSE 2 * BitAnd(a \div 2, b \div 2) + (a % 2) * (b % 2)

RECURSIVE BitOr(_, _)
BitOr(a, b) ==
    IF a \in {0, -1} /\ b \in {0, -1}
    THEN (IF a = -1 \/ b = -1 THEN -1 ELSE 0)
    ELSE 2 * BitOr(a \div 2, b \div 2)
         + (IF (a % 2) + (b % 2) > 0 THEN 1 ELSE 0)

RECURSIVE BitXor(_, _)
BitXor(a, b) ==
    IF a \in {0, -1} /\ b \in {0, -1}
    THEN (IF a = b THEN 0 ELSE -1)
    ELSE 2 * BitXor(a \div 2, b \div 2) + (((a % 2) + (b % 2)) % 2)

\* The value a three-register integer opcode stores.
binop(op, a, b) ==
    CASE op = XOR -> BitXor(a, b)
      [] op = ADD -> a + b
      [] op = SUB -> a - b
      [] op = MUL -> a * b
      [] op = AND -> BitAnd(a, b)
      [] op = OR -> BitOr(a, b)

\* SUB clearing the flag on a positive result.
SubFlagClears(zOld, result) == result <= 0
\* SUB setting the flag on a negative result only.
SubFlagNegative(zOld, result) == IF result < 0 THEN TRUE ELSE zOld
\* SUB setting the flag on a zero result only.
SubFlagZero(zOld, result) == IF result = 0 THEN TRUE ELSE zOld

\* SUB: "set the zero-flag if the result was zero or less"; otherwise the
\* flag keeps its value.
SubFlag(zOld, result) == IF result <= 0 THEN TRUE ELSE zOld

\* ------------------------------------------------------------ formatting

\* Code points: '0' is 48, 'A' is 65, '-' is 45, '+' is 43.
HexChar(d) == IF d < 10 THEN 48 + d ELSE 55 + d

RECURSIVE HexDigits(_)
HexDigits(n) ==
    IF n < 16 THEN <<HexChar(n)>>
    ELSE Append(HexDigits(n \div 16), HexChar(n % 16))

RECURSIVE DecDigits(_)
DecDigits(n) ==
    IF n < 10 THEN <<48 + n>>
    ELSE Append(DecDigits(n \div 10), 48 + (n % 10))

RECURSIVE PadZero(_, _)
PadZero(ds, w) == IF Len(ds) >= w THEN ds ELSE PadZero(<<48>> \o ds, w)

\* fmt.Sprintf("%0wX", v): the sign takes one column of the width.
FmtHex(v, w) ==
    IF v < 0 THEN <<45>> \o PadZero(HexDigits(-v), w - 1)
    ELSE PadZero(HexDigits(v), w)

\* INT_PRINT: "%02X" below 256, "%04X" otherwise.
PrintInt(val) == IF val < 256 THEN FmtHex(val, 2) ELSE FmtHex(val, 4)

\* fmt.Sprintf("%d", i)
Itoa(i) == IF i < 0 THEN <<45>> \o DecDigits(-i) ELSE DecDigits(i)

\* strconv.Atoi: an optional sign, then one or more decimal digits.
AtoiBody(s) == IF s # <<>> /\ s[1] \in {43, 45} THEN Tail(s) ELSE s
AtoiOK(s) ==
    /\ AtoiBody(s) # <<>>
    /\ \A k \in 1..Len(AtoiBody(s)) : AtoiBody(s)[k] \in 48..57

RECURSIVE DecValue(_)
DecValue(ds) ==
    IF ds = <<>> THEN 0
    ELSE 10 * DecValue(SubSeq(ds, 1, Len(ds) - 1)) + (ds[Len(ds)] - 48)

Atoi(s) ==
    IF s[1] = 45 THEN -DecValue(AtoiBody(s)) ELSE DecValue(AtoiBody(s))

\* splitCommand yields no piece exactly when the regular expression
\* [^\s"']+|"([^"]*)"|'(|^']*) matches nowhere: every character is white
\* space or a double quote, and there are fewer than two double quotes.
IsSpace(r) == r \in {9, 10, 12, 13, 32}
splitCommandEmpty(s) ==
    /\ \A k \in 1..Len(s) : IsSpace(s[k]) \/ s[k] = 34
    /\ Cardinality({k \in 1..Len(s) : s[k] = 34}) < 2

\* What a spawned command may print (stdout then stderr).
SystemOutputs == { <<>>, <<111, 107, 10>> }

\* Values rand.Intn(0xffff) may return: the ends of [0, 0xFFFF) and two
\* values on either side of the INT_PRINT width switch.
RandomValues == { 0, 255, 256, MEMSIZE - 1 }

\* ------------------------------------------------------------ operand reads

\* read2Val: the little-endian 16-bit value at a, a+1.
read2Val(m, a) == Mem(m, a) + Mem(m, a + 1) * 256

\* readString at c.ip: the length prefix, then one rune per memory byte.
readString(c) ==
    IF ~CanRead(c.ip, 2)
    THEN [ok |-> FALSE, c |-> Panic(c, MEMSIZE), s |-> <<>>]
    ELSE LET len == read2Val(c.mem, c.ip)
             d == [c EXCEPT !.ip = c.ip + 2]
         IN  IF len > 0 /\ ~CanRead(d.ip, len)
             THEN [ok |-> FALSE, c |-> Panic(d, d.ip), s |-> <<>>]
             ELSE [ok |-> TRUE,
                   c |-> [d EXCEPT !.ip = d.ip + len],
                   s |-> [k \in 1..len |-> Mem(c.mem, d.ip + k - 1)]]

\* ------------------------------------------------------------ handlers
\* Each handler maps the CPU at the fetch of its opcode to the CPU at the
\* end of the switch statement (before the wrap-around test of Run).

\* case 0x00
opExit(c) == [c EXCEPT !.status = "halted"]

\* case 0x01
opIntStore(c) ==
    IF ~CanRead(c.ip + 1, 3) THEN Panic(c, MEMSIZE)
    ELSE LET reg == Mem(c.mem, c.ip + 1)
             val == read2Val(c.mem, c.ip + 2)
             d == [c EXCEPT !.ip = c.ip + 4]
         IN  IF ~RegOK(reg) THEN Panic(d, d.ip)
             ELSE [d EXCEPT !.regs[reg] = SetInt(@, val)]

\* case 0x02
opIntPrint(c) ==
    IF ~CanRead(c.ip + 1, 1) THEN Panic(c, MEMSIZE)
    ELSE LET reg == Mem(c.mem, c.ip + 1)
             d == [c EXCEPT !.ip = c.ip + 1]
         IN  IF ~RegOK(reg) THEN Panic(d, d.ip)
             ELSE IF ~IsInt(d.regs[reg]) THEN Trap(d, ErrGetInt)
             ELSE [d EXCEPT !.out = @ \o PrintInt(d.regs[reg].i),
                            !.ip = d.ip + 1]

\* case 0x03
opIntToString(c) ==
    IF ~CanRead(c.ip + 1, 1) THEN Panic(c, MEMSIZE)
    ELSE LET reg == Mem(c.mem, c.ip + 1)
             d == [c EXCEPT !.ip = c.ip + 1]
         IN  IF ~RegOK(reg) THEN Panic(d, d.ip)
             ELSE IF ~IsInt(d.regs[reg]) THEN Trap(d, ErrGetInt)
             ELSE [d EXCEPT !.regs[reg] = SetString(@, Itoa(@.i)),
                            !.ip = d.ip + 1]

\* case 0x04, with the value the random source returned
opIntRandom(c, rnd) ==
    IF ~CanRead(c.ip + 1, 1) THEN Panic(c, MEMSIZE)
    ELSE LET reg == Mem(c.mem, c.ip + 1)
             d == [c EXCEPT !.ip = c.ip + 1]
         IN  IF ~RegOK(reg) THEN Panic(d, d.ip)
             ELSE [d EXCEPT !.regs[reg] = SetInt(@, rnd), !.ip = d.ip + 1]

\* case 0x10
opJump(c) ==
    IF ~CanRead(c.ip + 1, 2) THEN Panic(c, MEMSIZE)
    ELSE [c EXCEPT !.ip = read2Val(c.mem, c.ip + 1)]

\* case 0x11
opJumpZ(c) ==
    IF ~CanRead(c.ip + 1, 2) THEN Panic(c, MEMSIZE)
    ELSE [c EXCEPT !.ip = IF c.z THEN read2Val(c.mem, c.ip + 1)
                                 ELSE c.ip + 3]

\* case 0x12
opJumpNZ(c) ==
    IF ~CanRead(c.ip + 1, 2) THEN Panic(c, MEMSIZE)
    ELSE [c EXCEPT !.ip = IF ~c.z THEN read2Val(c.mem, c.ip + 1)
                                  ELSE c.ip + 3]

\* The three-register integer handlers (XOR, ADD, SUB, MUL, AND, OR):
\* operands reg, a, b; R[reg] <- R[a] op R[b].
arith3(c, op) ==
    IF ~CanRead(c.ip + 1, 3) THEN Panic(c, MEMSIZE)
    ELSE LET reg == Mem(c.mem, c.ip + 1)
             a == Mem(c.mem, c.ip + 2)
             b == Mem(c.mem, c.ip + 3)
             d == [c EXCEPT !.ip = c.ip + 4]
         IN  IF ~RegOK(a) THEN Panic(d, d.ip)
             ELSE IF ~IsInt(d.regs[a]) THEN Trap(d, ErrGetInt)
             ELSE IF ~RegOK(b) THEN Panic(d, d.ip)
             ELSE IF ~IsInt(d.regs[b]) THEN Trap(d, ErrGetInt)
             ELSE IF ~RegOK(reg) THEN Panic(d, d.ip)
             ELSE [d EXCEPT !.regs[reg] = SetInt(@, binop(op, d.regs[a].i, d.regs[b].i))]

\* case 0x13
opXor(c) == arith3(c, XOR)
\* case 0x21
opAdd(c) == arith3(c, ADD)
\* case 0x23
opMul(c) == arith3(c, MUL)
\* case 0x27
opAnd(c) == arith3(c, AND)
\* case 0x28
opOr(c) == arith3(c, OR)

\* case 0x22
opSub(c) ==
    LET d == arith3(c, SUB)
        reg == Mem(c.mem, c.ip + 1)
    IN  IF d.status # "running" THEN d
        ELSE [d EXCEPT !.z = SubFlag(@, d.regs[reg].i)]

\* case 0x24
opDiv(c) ==
    IF ~CanRead(c.ip + 1, 3) THEN Panic(c, MEMSIZE)
    ELSE LET reg == Mem(c.mem, c.ip + 1)
             a == Mem(c.mem, c.ip + 2)
             b == Mem(c.mem, c.ip + 3)
             d == [c EXCEPT !.ip = c.ip + 4]
         IN  IF ~RegOK(a) THEN Panic(d, d.ip)
             ELSE IF ~IsInt(d.regs[a]) THEN Trap(d, ErrGetInt)
             ELSE IF ~RegOK(b) THEN Panic(d, d.ip)
             ELSE IF ~IsInt(d.regs[b]) THEN Trap(d, ErrGetInt)
             ELSE IF d.regs[b].i = 0 THEN Trap(d, ErrDivZero)
             ELSE IF ~RegOK(reg) THEN Panic(d, d.ip)
             ELSE [d EXCEPT !.regs[reg] =
                                SetInt(@, GoDiv(d.regs[a].i, d.regs[b].i))]

\* INC and DEC: R[reg] <- R[reg] + delta.
incDec(c, delta) ==
    IF ~CanRead(c.ip + 1, 1) THEN Panic(c, MEMSIZE)
    ELSE LET reg == Mem(c.mem, c.ip + 1)
             d == [c EXCEPT !.ip = c.ip + 1]
         IN  IF ~RegOK(reg) THEN Panic(d, d.ip)
             ELSE IF ~IsInt(d.regs[reg]) THEN Trap(d, ErrGetInt)
             ELSE [d EXCEPT !.regs[reg] = SetInt(@, @.i + delta),
                            !.ip = d.ip + 1]

\* case 0x25
opInc(c) == incDec(c, 1)
\* case 0x26
opDec(c) == incDec(c, -1)

\* case 0x30
opStoreString(c) ==
    IF ~CanRead(c.ip + 1, 1) THEN Panic(c, MEMSIZE)
    ELSE LET reg == Mem(c.mem, c.ip + 1)
             r == readString([c EXCEPT !.ip = c.ip + 2])
         IN  IF ~r.ok THEN r.c
             ELSE IF ~RegOK(reg) THEN Panic(r.c, r.c.ip)
             ELSE [r.c EXCEPT !.regs[reg] = SetString(@, r.s)]

\* case 0x31
opPrintString(c) ==
    IF ~CanRead(c.ip + 1, 1) THEN Panic(c, MEMSIZE)
    ELSE LET reg == Mem(c.mem, c.ip + 1)
             d == [c EXCEPT !.ip = c.ip + 1]
         IN  IF ~RegOK(reg) THEN Panic(d, d.ip)
             ELSE IF ~IsString(d.regs[reg]) THEN Trap(d, ErrGetString)
             ELSE [d EXCEPT !.out = @ \o d.regs[reg].s, !.ip = d.ip + 1]

\* case 0x32
opStringConcat(c) ==
    IF ~CanRead(c.ip + 1, 3) THEN Panic(c, MEMSIZE)
    ELSE LET reg == Mem(c.mem, c.ip + 1)
             a == Mem(c.mem, c.ip + 2)
             b == Mem(c.mem, c.ip + 3)
             d == [c EXCEPT !.ip = c.ip + 4]
         IN  IF ~RegOK(a) THEN Panic(d, d.ip)
             ELSE IF ~IsString(d.regs[a]) THEN Trap(d, ErrGetString)
             ELSE IF ~RegOK(b) THEN Panic(d, d.ip)
             ELSE IF ~IsString(d.regs[b]) THEN Trap(d, ErrGetString)
             ELSE IF ~RegOK(reg) THEN Panic(d, d.ip)
             ELSE [d EXCEPT !.regs[reg] =
                                SetString(@, d.regs[a].s \o d.regs[b].s)]

\* case 0x33, with what the spawned command printed
opSystem(c, printed) ==
    IF ~CanRead(c.ip + 1, 1) THEN Panic(c, MEMSIZE)
    ELSE LET reg == Mem(c.mem, c.ip + 1)
             d == [c EXCEPT !.ip = c.ip + 2]
         IN  IF ~RegOK(reg) THEN Panic(d, d.ip)
             ELSE IF ~IsString(d.regs[reg]) THEN Trap(d, ErrGetString)
             ELSE IF splitCommandEmpty(d.regs[reg].s) THEN Panic(d, d.ip)
             ELSE [d EXCEPT !.out = @ \o printed]

\* case 0x34
opStringToInt(c) ==
    IF ~CanRead(c.ip + 1, 1) THEN Panic(c, MEMSIZE)
    ELSE LET reg == Mem(c.mem, c.ip + 1)
             d == [c EXCEPT !.ip = c.ip + 1]
         IN  IF ~RegOK(reg) THEN Panic(d, d.ip)
             ELSE IF ~IsString(d.regs[reg]) THEN Trap(d, ErrGetString)
             ELSE IF ~AtoiOK(d.regs[reg].s) THEN Trap(d, ErrAtoi)
             ELSE [d EXCEPT !.regs[reg] = SetInt(@, Atoi(@.s)),
                            !.ip = d.ip + 1]

\* CMP_IMMEDIATE comparing the integer slot whatever the register's kind.
cmpImmZAnyKind(r, val) == r.i = val

\* The truth values the comparison handlers assign to the zero flag.
cmpImmZ(r, val) == IsInt(r) /\ r.i = val
cmpStrZ(r, str) == IsString(r) /\ r.s = str
isStringZ(r) == r.t = "string"
isIntZ(r) == r.t = "int"

\* case 0x40: the flag is cleared first, then the second register is read
\* as the kind of the first.
opCmpReg(c) ==
    IF ~CanRead(c.ip + 1, 2) THEN Panic(c, MEMSIZE)
    ELSE LET r1 == Mem(c.mem, c.ip + 1)
             r2 == Mem(c.mem, c.ip + 2)
             d == [c EXCEPT !.ip = c.ip + 3, !.z = FALSE]
         IN  IF ~RegOK(r1) THEN Panic(d, d.ip)
             ELSE IF IsInt(d.regs[r1])
             THEN IF ~RegOK(r2) THEN Panic(d, d.ip)
                  ELSE IF ~IsInt(d.regs[r2]) THEN Trap(d, ErrGetInt)
                  ELSE [d EXCEPT !.z = (d.regs[r1].i = d.regs[r2].i)]
             ELSE IF IsString(d.regs[r1])
             THEN IF ~RegOK(r2) THEN Panic(d, d.ip)
                  ELSE IF ~IsString(d.regs[r2]) THEN Trap(d, ErrGetString)
                  ELSE [d EXCEPT !.z = (d.regs[r1].s = d.regs[r2].s)]
             ELSE d

\* case 0x41
opCmpImmediate(c) ==
    IF ~CanRead(c.ip + 1, 3) THEN Panic(c, MEMSIZE)
    ELSE LET reg == Mem(c.mem, c.ip + 1)
             val == read2Val(c.mem, c.ip + 2)
             d == [c EXCEPT !.ip = c.ip + 4]
         IN  IF ~RegOK(reg) THEN Panic(d, d.ip)
             ELSE [d EXCEPT !.z = cmpImmZ(d.regs[reg], val)]

\* case 0x42
opCmpStr(c) ==
    IF ~CanRead(c.ip + 1, 1) THEN Panic(c, MEMSIZE)
    ELSE LET reg == Mem(c.mem, c.ip + 1)
             r == readString([c EXCEPT !.ip = c.ip + 2])
         IN  IF ~r.ok THEN r.c
             ELSE IF ~RegOK(reg) THEN Panic(r.c, r.c.ip)
             ELSE [r.c EXCEPT !.z = cmpStrZ(r.c.regs[reg], r.s)]

\* case 0x43
opIsString(c) ==
    IF ~CanRead(c.ip + 1, 1) THEN Panic(c, MEMSIZE)
    ELSE LET reg == Mem(c.mem, c.ip + 1)
             d == [c EXCEPT !.ip = c.ip + 2]
         IN  IF ~RegOK(reg) THEN Panic(d, d.ip)
             ELSE [d EXCEPT !.z = isStringZ(d.regs[reg])]

\* case 0x44
opIsInt(c) ==
    IF ~CanRead(c.ip + 1, 1) THEN Panic(c, MEMSIZE)
    ELSE LET reg == Mem(c.mem, c.ip + 1)
             d == [c EXCEPT !.ip = c.ip + 2]
         IN  IF ~RegOK(reg) THEN Panic(d, d.ip)
             ELSE [d EXCEPT !.z = isIntZ(d.regs[reg])]

\* NOP leaving the IP where it is.
opNopStays(c) == c

\* case 0x50
opNop(c) == [c EXCEPT !.ip = c.ip + 1]

\* STORE copying the second operand's register into the first's.
opStoreReversed(c) ==
    IF ~CanRead(c.ip + 1, 2) THEN Panic(c, MEMSIZE)
    ELSE LET dst == Mem(c.mem, c.ip + 1)
             src == Mem(c.mem, c.ip + 2)
             d == [c EXCEPT !.ip = c.ip + 3]
         IN  IF ~RegOK(src) \/ ~RegOK(dst) THEN Panic(d, d.ip)
             ELSE [d EXCEPT !.regs[dst] = d.regs[src]]

\* case 0x51: c.regs[src] = c.regs[dst], dst the first operand byte.
opStore(c) ==
    IF ~CanRead(c.ip + 1, 2) THEN Panic(c, MEMSIZE)
    ELSE LET dst == Mem(c.mem, c.ip + 1)
             src == Mem(c.mem, c.ip + 2)
             d == [c EXCEPT !.ip = c.ip + 3]
         IN  IF ~RegOK(src) \/ ~RegOK(dst) THEN Panic(d, d.ip)
             ELSE [d EXCEPT !.regs[src] = d.regs[dst]]

\* case 0x60: the address is the integer slot of the register, whatever
\* its kind.
opPeek(c) ==
    IF ~CanRead(c.ip + 1, 2) THEN Panic(c, MEMSIZE)
    ELSE LET result == Mem(c.mem, c.ip + 1)
             src == Mem(c.mem, c.ip + 2)
             d == [c EXCEPT !.ip = c.ip + 2]
         IN  IF ~RegOK(src) THEN Panic(d, d.ip)
             ELSE LET addr == d.regs[src].i
                  IN  IF ~RegOK(result) \/ ~MemOK(addr) THEN Panic(d, d.ip)
                      ELSE [d EXCEPT !.regs[result] =
                                         SetInt(@, Mem(d.mem, addr)),
                                     !.ip = d.ip + 1]

\* case 0x61: address and value are the integer slots of the registers.
opPoke(c) ==
    IF ~CanRead(c.ip + 1, 2) THEN Panic(c, MEMSIZE)
    ELSE LET src == Mem(c.mem, c.ip + 1)
             dst == Mem(c.mem, c.ip + 2)
             d == [c EXCEPT !.ip = c.ip + 3]
         IN  IF ~RegOK(dst) \/ ~RegOK(src) THEN Panic(d, d.ip)
             ELSE LET addr == d.regs[dst].i
                      val == d.regs[src].i
                  IN  IF ~MemOK(addr) THEN Panic(d, d.ip)
                      ELSE [d EXCEPT !.mem = MemSet(@, addr, val % 256)]

\* The copy loop of MEMCPY: an address at or past 0xFFFF restarts at 0, a
\* negative one cannot be indexed.
RECURSIVE memcpyLoop(_, _, _, _)
memcpyLoop(m, dst_addr, src_addr, length) ==
    IF length <= 0 THEN [ok |-> TRUE, mem |-> m]
    ELSE LET da == IF dst_addr >= MEMSIZE THEN 0 ELSE dst_addr
             sa == IF src_addr >= MEMSIZE THEN 0 ELSE src_addr
         IN  IF da < 0 \/ sa < 0 THEN [ok |-> FALSE, mem |-> m]
             ELSE memcpyLoop(MemSet(m, da, Mem(m, sa)), da + 1, sa + 1,
                             length - 1)

\* case 0x62
opMemcpy(c) ==
    IF ~CanRead(c.ip + 1, 3) THEN Panic(c, MEMSIZE)
    ELSE LET dst == Mem(c.mem, c.ip + 1)
             src == Mem(c.mem, c.ip + 2)
             len == Mem(c.mem, c.ip + 3)
             d == [c EXCEPT !.ip = c.ip + 4]
         IN  IF ~RegOK(src) THEN Panic(d, d.ip)
             ELSE IF ~IsInt(d.regs[src]) THEN Trap(d, ErrGetInt)
             ELSE IF ~RegOK(dst) THEN Panic(d, d.ip)
             ELSE IF ~IsInt(d.regs[dst]) THEN Trap(d, ErrGetInt)
             ELSE IF ~RegOK(len) THEN Panic(d, d.ip)
             ELSE IF ~IsInt(d.regs[len]) THEN Trap(d, ErrGetInt)
             ELSE LET r == memcpyLoop(d.mem, d.regs[dst].i, d.regs[src].i,
                                      d.regs[len].i)
                  IN  IF r.ok THEN [d EXCEPT !.mem = r.mem]
                      ELSE Panic([d EXCEPT !.mem = r.mem], d.ip)

\* case 0x70
opPush(c) ==
    IF ~CanRead(c.ip + 1, 1) THEN Panic(c, MEMSIZE)
    ELSE LET reg == Mem(c.mem, c.ip + 1)
             d == [c EXCEPT !.ip = c.ip + 2]
         IN  IF ~RegOK(reg) THEN Panic(d, d.ip)
             ELSE IF ~IsInt(d.regs[reg]) THEN Trap(d, ErrGetInt)
             ELSE [d EXCEPT !.stack = Push(@, d.regs[reg].i)]

\* case 0x71
opPop(c) ==
    IF ~CanRead(c.ip + 1, 1) THEN Panic(c, MEMSIZE)
    ELSE LET reg == Mem(c.mem, c.ip + 1)
             d == [c EXCEPT !.ip = c.ip + 2]
         IN  IF Empty(d.stack) THEN Trap(d, ErrUnderflow)
             ELSE IF ~RegOK(reg) THEN Panic(d, d.ip)
             ELSE [d EXCEPT !.regs[reg] = SetInt(@, PopValue(d.stack)),
                            !.stack = PopRest(@)]

\* case 0x72
opRet(c) ==
    IF Empty(c.stack) THEN Trap(c, ErrUnderflow)
    ELSE [c EXCEPT !.ip = PopValue(c.stack), !.stack = PopRest(@)]

\* CALL pushing the IP before read2Val consumed the operand.
callReturnBeforeOperand(ipAtFetch) == ipAtFetch + 1

\* The value CALL pushes: the IP after read2Val consumed the operand.
callReturn(ipAtFetch) == ipAtFetch + 3

\* case 0x73
opCall(c) ==
    IF ~CanRead(c.ip + 1, 2) THEN Panic(c, MEMSIZE)
    ELSE [c EXCEPT !.stack = Push(@, callReturn(c.ip)),
                   !.ip = read2Val(c.mem, c.ip + 1)]

\* default
opDefault(c) == Trap(c, ErrOpcode)

\* "Ensure our instruction-pointer wraps around."
wraps(newip) == newip >= MEMSIZE
\* The wrap-around resetting the IP only past 0xFFFF.
wrapIPOffByOne(newip) == IF newip > MEMSIZE THEN 0 ELSE newip
wrapIP(newip) == IF wraps(newip) THEN 0 ELSE newip

\* ------------------------------------------------------------ images

\* The instructions generated images are built from.
Menu ==
    { <<INT_STORE, 1, 3, 0>>, <<INT_STORE, 2, 44, 1>>,
      <<STORE_STRING, 1, 1, 0, 97>>, <<STORE_STRING, 2, 2, 0, 49, 50>>,
      <<INC, 1>>, <<DEC, 0>>,
      <<INT_PRINT, 2>>, <<INT_TOSTRING, 1>>, <<INT_RANDOM, 3>>,
      <<JUMP, 0, 0>>, <<JUMP, 255, 255>>, <<JUMP_Z, 0, 0>>,
      <<JUMP_NZ, 0, 0>>,
      <<ADD, 0, 1, 2>>, <<SUB, 0, 1, 2>>, <<SUB, 3, 1, 1>>,
      <<DIV, 0, 1, 2>>,
      <<PRINT_STRING, 1>>, <<STRING_CONCAT, 0, 1, 2>>, <<SYSTEM, 1>>,
      <<STRING_TOINT, 2>>,
      <<CMP_REG, 1, 2>>, <<CMP_IMMEDIATE, 1, 3, 0>>,
      <<CMP_STR, 1, 1, 0, 97>>, <<IS_STRING, 1>>, <<IS_INT, 1>>,
      <<NOP>>, <<STORE, 1, 2>>, <<PEEK, 0, 1>>, <<POKE, 1, 2>>,
      <<MEMCPY, 0, 2, 1>>,
      <<PUSH, 1>>, <<POP, 2>>, <<RET>>, <<CALL, 0, 0>>,
      <<255>>, <<INT_STORE, 16, 0, 0>> }

\* Every concatenation of at most n instructions of the menu.
RECURSIVE Generated(_)
Generated(n) ==
    IF n = 0 THEN { <<>> }
    ELSE Generated(n - 1)
         \cup { p \o m : p \in Generated(n - 1), m \in Menu }

\* call fn; exit; :fn store #1,42; print_int #1; ret
ProgCallRet ==
    <<CALL, 4, 0, EXIT, INT_STORE, 1, 42, 0, INT_PRINT, 1, RET>>

\* store #1,3; :top dec #1; print_int #1; sub #0,#1,#1; jmpnz top; exit
ProgLoop ==
    <<INT_STORE, 1, 3, 0, DEC, 1, INT_PRINT, 1, SUB, 0, 1, 1,
      JUMP_NZ, 4, 0, EXIT>>

\* call a; exit; :a call b; ret; :b ret
ProgNested == <<CALL, 4, 0, EXIT, CALL, 8, 0, RET, RET>>

\* dec #0; push #0; ret
ProgNegRet == <<DEC, 0, PUSH, 0, RET>>

\* store #1,3; push #1; inc #1; push #1; pop #2; pop #3; pop #4
ProgPushPop ==
    <<INT_STORE, 1, 3, 0, PUSH, 1, INC, 1, PUSH, 1, POP, 2, POP, 3,
      POP, 4>>

\* store #1,80; store #2,0xFFFE; poke #1,#2; jmp 0xFFFE
ProgWrap ==
    <<INT_STORE, 1, 80, 0, INT_STORE, 2, 254, 255, POKE, 1, 2,
      JUMP, 254, 255>>

\* store #1,"a"; store #2,"a"; cmp #1,#2; store #3,"b"; cmp #1,#3;
\* cmp #1,"b"; cmp #1,7; exit
ProgCmp ==
    <<STORE_STRING, 1, 1, 0, 97, STORE_STRING, 2, 1, 0, 97, CMP_REG, 1, 2,
      STORE_STRING, 3, 1, 0, 98, CMP_REG, 1, 3, CMP_STR, 1, 1, 0, 98,
      CMP_IMMEDIATE, 1, 7, 0, EXIT>>

\* store #1,7; store #2,2; dec #3; dec #3; div #0,#1,#3; sub #4,#3,#2;
\* sub #5,#1,#2; div #6,#1,#5 ... exit
ProgDiv ==
    <<INT_STORE, 1, 7, 0, INT_STORE, 2, 2, 0, DEC, 3, DEC, 3,
      DIV, 0, 1, 3, SUB, 4, 3, 2, SUB, 5, 1, 2, DIV, 6, 1, 5, EXIT>>

\* store #1,5; int2string #1; peek #0,#1; poke #1,#1; push #1
ProgStale ==
    <<INT_STORE, 1, 5, 0, INT_TOSTRING, 1, PEEK, 0, 1, POKE, 1, 1,
      PUSH, 1>>

\* store #1,7; int2string #1; cmp #1,7; string2int #1; cmp #1,"7";
\* is_integer #1; is_string #1; exit
ProgCmpStale ==
    <<INT_STORE, 1, 7, 0, INT_TOSTRING, 1, CMP_IMMEDIATE, 1, 7, 0,
      STRING_TOINT, 1, CMP_STR, 1, 1, 0, 55, IS_INT, 1, IS_STRING, 1, EXIT>>

\* store #1,6; dec #2; xor #0,#1,#2; and #3,#1,#2; or #4,#1,#2;
\* mul #5,#1,#2; print_int #5; print_int #1
ProgArith ==
    <<INT_STORE, 1, 6, 0, DEC, 2, XOR, 0, 1, 2, AND, 3, 1, 2, OR, 4, 1, 2,
      MUL, 5, 1, 2, INT_PRINT, 5, INT_PRINT, 1>>

\* store #1,"x1"; string2int #1
ProgAtoi == <<STORE_STRING, 1, 2, 0, 120, 49, STRING_TOINT, 1>>

\* store #0,0xFFFF; inc #0; store #2,1; store #1,4; memcpy #0,#1,#2: one
\* byte from address 4 to the address 0x10000.
ProgMemcpyFar ==
    <<INT_STORE, 0, 255, 255, INC, 0, INT_STORE, 2, 1, 0, INT_STORE, 1, 4, 0,
      MEMCPY, 0, 1, 2>>

\* store #0,0xFFFD; store #1,0xFFFE; store #2,3; memcpy #0,#1,#2: three
\* bytes from 0xFFFE on to 0xFFFD on, both runs passing the end of memory.
ProgMemcpyWrap ==
    <<INT_STORE, 0, 253, 255, INT_STORE, 1, 254, 255, INT_STORE, 2, 3, 0,
      MEMCPY, 0, 1, 2>>

\* store #1,0xFFFF; peek #0,#1
ProgPeekFar == <<INT_STORE, 1, 255, 255, PEEK, 0, 1>>

\* store #1,0x25; store #2,0xFFFE; poke #1,#2; jmp 0xFFFE: an INC in the
\* last byte of memory.
ProgOperandFar ==
    <<INT_STORE, 1, INC, 0, INT_STORE, 2, 254, 255, POKE, 1, 2,
      JUMP, 254, 255>>

\* inc, the operand byte 0xFF
ProgIncFar == <<INC, 255>>

\* store #1, a string of 0xFFFF bytes
ProgStringFar == <<STORE_STRING, 1, 255, 255>>

Scenarios ==
    { ProgCallRet, ProgLoop, ProgNested, ProgNegRet, ProgPushPop, ProgWrap,
      ProgCmp, ProgCmpStale, ProgDiv, ProgStale, ProgArith, ProgAtoi,
      ProgMemcpyFar, ProgMemcpyWrap, ProgPeekFar, ProgOperandFar,
      ProgStringFar, ProgIncFar }

Programs == Scenarios \cup Generated(MaxInstr)

\* ------------------------------------------------------------ loader

\* NewCPU: a zero CPU, then Reset.
NewRegister == [i |-> 0, s |-> <<>>, t |-> "int"]

ResetKeepsStack(c) ==
    [c EXCEPT !.regs = [n \in 0..(NREGS - 1) |-> SetInt(c.regs[n], 0)],
              !.ip = 0]

\* Reset: every register SetInt(0), IP 0, a new stack.
Reset(c) ==
    [c EXCEPT !.regs = [n \in 0..(NREGS - 1) |-> SetInt(c.regs[n], 0)],
              !.ip = 0,
              !.stack = <<>>]

\* The copy loop of LoadBytes: data over the first len(data) bytes.
copyIn(m, data) ==
    [x \in (DOMAIN m) \cup (0..(Len(data) - 1)) |->
        IF x < Len(data) THEN data[x + 1] ELSE m[x]]

\* The copy loop over a run of zero bytes of data, at from..(to - 1): they
\* overwrite what the memory held there.
copyZeros(m, from, to) ==
    [x \in DOMAIN m |-> IF from <= x /\ x < to THEN 0 ELSE m[x]]

loadPaddedOffByOne(c, bytes, pad) ==
    LET d == Reset(c)
        n == Len(bytes) + pad
    IN  IF n > MEMSIZE THEN Trap(d, ErrTooLarge)
        ELSE [d EXCEPT !.mem = copyZeros(copyIn(@, bytes), Len(bytes), n),
                       !.status = "running"]

\* LoadBytes(data), data being `bytes` followed by `pad` zero bytes.
loadPadded(c, bytes, pad) ==
    LET d == Reset(c)
        n == Len(bytes) + pad
    IN  IF n >= MEMSIZE THEN Trap(d, ErrTooLarge)
        ELSE [d EXCEPT !.mem = copyZeros(copyIn(@, bytes), Len(bytes), n),
                       !.status = "running"]

loadBytes(c, data) == loadPadded(c, data, 0)

\* ------------------------------------------------------------ actions

NewCPU ==
    /\ mem = [x \in {} |-> 0]
    /\ regs = [n \in 0..(NREGS - 1) |-> NewRegister]
    /\ z = FALSE
    /\ ip = 0
    /\ stack = <<>>
    /\ status = "new"
    /\ out = <<>>
    /\ diag = ""
    /\ image = <<>>
    /\ steps = 0
    /\ wrapped = FALSE
    /\ loads = 0
    /\ size = 0

\* No lexer and no assembler were made.
NoLexer ==
    /\ characters = <<>>
    /\ position = 0
    /\ readPosition = 0
    /\ ch = 0
    /\ lexing = "off"
    /\ pos = 0
    /\ text = <<>>
    /\ tokens = <<>>

NoCompiler ==
    /\ stream = <<>>
    /\ curToken = [Type |-> "", Literal |-> <<>>]
    /\ peekToken = [Type |-> "", Literal |-> <<>>]
    /\ bytecode = <<>>
    /\ labels = <<>>
    /\ fixups = <<>>
    /\ phase = "off"
    /\ pending = {}
    /\ emitted = <<>>

Init == NewCPU /\ NoLexer /\ NoCompiler

\* The state a call that is not an instruction of Run leaves.
Install(d) ==
    /\ mem' = d.mem
    /\ regs' = d.regs
    /\ z' = d.z
    /\ ip' = d.ip
    /\ stack' = d.stack
    /\ status' = d.status
    /\ out' = d.out
    /\ diag' = d.diag
    /\ UNCHANGED <<lexVars, asmVars>>

\* One turn of the loop of Run: the handler's result, then the wrap-around
\* test, which a trap or a panic never reaches.
Commit(d) ==
    /\ mem' = d.mem
    /\ regs' = d.regs
    /\ z' = d.z
    /\ stack' = d.stack
    /\ status' = d.status
    /\ out' = d.out
    /\ diag' = d.diag
    /\ ip' = IF d.status \in {"running", "halted"} THEN wrapIP(d.ip) ELSE d.ip
    /\ wrapped' = (d.status \in {"running", "halted"} /\ wraps(d.ip))
    /\ steps' = steps + 1
    /\ UNCHANGED <<image, loads, size, lexVars, asmVars>>

\* A dispatch that may take any case of the switch.
FetchingAnyCase(op) ==
    /\ status = "running"
    /\ steps < MaxSteps
    /\ MemOK(ip)

\* Run is about to dispatch on opcode op.
Fetching(op) ==
    /\ status = "running"
    /\ steps < MaxSteps
    /\ MemOK(ip)
    /\ Mem(mem, ip) = op

LoadBytes ==
    /\ status = "new"
    /\ \E data \in Programs :
          /\ Install(loadBytes(CPU, data))
          /\ image' = data
          /\ size' = Len(data)
    /\ loads' = loads + 1
    /\ UNCHANGED <<steps, wrapped>>

\* instruction := c.mem[c.ip] with an IP that is no index of the memory.
FetchPanic ==
    /\ status = "running"
    /\ steps < MaxSteps
    /\ ~MemOK(ip)
    /\ Commit(Panic(CPU, ip))

Exit == Fetching(EXIT) /\ Commit(opExit(CPU))
IntStore == Fetching(INT_STORE) /\ Commit(opIntStore(CPU))
IntPrint == Fetching(INT_PRINT) /\ Commit(opIntPrint(CPU))
IntToString == Fetching(INT_TOSTRING) /\ Commit(opIntToString(CPU))
IntRandom ==
    /\ Fetching(INT_RANDOM)
    /\ \E rnd \in RandomValues : Commit(opIntRandom(CPU, rnd))
Jump == Fetching(JUMP) /\ Commit(opJump(CPU))
JumpZ == Fetching(JUMP_Z) /\ Commit(opJumpZ(CPU))
JumpNZ == Fetching(JUMP_NZ) /\ Commit(opJumpNZ(CPU))
Xor == Fetching(XOR) /\ Commit(opXor(CPU))
Add == Fetching(ADD) /\ Commit(opAdd(CPU))
Sub == Fetching(SUB) /\ Commit(opSub(CPU))
Mul == Fetching(MUL) /\ Commit(opMul(CPU))
Div == Fetching(DIV) /\ Commit(opDiv(CPU))
Inc == Fetching(INC) /\ Commit(opInc(CPU))
Dec == Fetching(DEC) /\ Commit(opDec(CPU))
And == Fetching(AND) /\ Commit(opAnd(CPU))
Or == Fetching(OR) /\ Commit(opOr(CPU))
StoreString == Fetching(STORE_STRING) /\ Commit(opStoreString(CPU))
PrintString == Fetching(PRINT_STRING) /\ Commit(opPrintString(CPU))
StringConcat == Fetching(STRING_CONCAT) /\ Commit(opStringConcat(CPU))
System ==
    /\ Fetching(SYSTEM)
    /\ \E printed \in SystemOutputs : Commit(opSystem(CPU, printed))
StringToInt == Fetching(STRING_TOINT) /\ Commit(opStringToInt(CPU))
CmpReg == Fetching(CMP_REG) /\ Commit(opCmpReg(CPU))
CmpImmediate == Fetching(CMP_IMMEDIATE) /\ Commit(opCmpImmediate(CPU))
CmpStr == Fetching(CMP_STR) /\ Commit(opCmpStr(CPU))
IsStringOp == Fetching(IS_STRING) /\ Commit(opIsString(CPU))
IsIntOp == Fetching(IS_INT) /\ Commit(opIsInt(CPU))
Nop == Fetching(NOP) /\ Commit(opNop(CPU))
Store == Fetching(STORE) /\ Commit(opStore(CPU))
Peek == Fetching(PEEK) /\ Commit(opPeek(CPU))
Poke == Fetching(POKE) /\ Commit(opPoke(CPU))
Memcpy == Fetching(MEMCPY) /\ Commit(opMemcpy(CPU))
PushOp == Fetching(PUSH) /\ Commit(opPush(CPU))
PopOp == Fetching(POP) /\ Commit(opPop(CPU))
Ret == Fetching(RET) /\ Commit(opRet(CPU))
Call == Fetching(CALL) /\ Commit(opCall(CPU))
Default ==
    /\ status = "running"
    /\ steps < MaxSteps
    /\ MemOK(ip)
    /\ Mem(mem, ip) \notin Opcodes
    /\ Commit(opDefault(CPU))

\* The loop of Run.
Run ==
    \/ FetchPanic
    \/ Exit \/ IntStore \/ IntPrint \/ IntToString \/ IntRandom
    \/ Jump \/ JumpZ \/ JumpNZ
    \/ Xor \/ Add \/ Sub \/ Mul \/ Div \/ Inc \/ Dec \/ And \/ Or
    \/ StoreString \/ PrintString \/ StringConcat \/ System \/ StringToInt
    \/ CmpReg \/ CmpImmediate \/ CmpStr \/ IsStringOp \/ IsIntOp
    \/ Nop \/ Store \/ Peek \/ Poke \/ Memcpy
    \/ PushOp \/ PopOp \/ Ret \/ Call
    \/ Default

Next == LoadBytes \/ Run

Spec == Init /\ [][Next]_vars

\* ------------------------------------------------------------ a reused CPU

\* Loads one CPU serves.
MaxLoads == 2

\* An image is written as its leading bytes and the count of zero bytes that
\* follow them.  The largest image the loader takes has 0xFFFE bytes, the
\* smallest it refuses 0xFFFF.
Padded(bytes, pad) == [bytes |-> bytes, pad |-> pad]
LargestProgram == Padded(<<NOP, EXIT>>, MEMSIZE - 3)
SmallestRefused == Padded(<<INC, 0>>, MEMSIZE - 2)

\* What the first load of a CPU is given, and what a later one is.
Hosted ==
    { Padded(d, 0) : d \in Scenarios \cup Generated(1) }
        \cup { LargestProgram }
Reloads ==
    { Padded(<<>>, 0), Padded(<<NOP>>, 0), Padded(<<INC, 0, EXIT>>, 0),
      Padded(<<EXIT>>, 2), LargestProgram, SmallestRefused }

\* ioutil.ReadFile: an error, or the bytes of the file.
Files ==
    { [err |-> TRUE, b |-> Padded(<<>>, 0)] }
        \cup { [err |-> FALSE, b |-> d] : d \in Reloads }

ErrReadFile == "Failed to read file"

loadFile(c, file) ==
    LET d == Reset(c)
        n == Len(file.b.bytes) + file.b.pad
    IN  IF file.err THEN Trap(d, ErrReadFile)
        ELSE IF n >= MEMSIZE THEN Trap(d, ErrTooLarge)
        ELSE [d EXCEPT !.mem = copyZeros(copyIn(@, file.b.bytes),
                                         Len(file.b.bytes), n),
                       !.status = "running"]

\* The CPU is between two calls of its owner: made, loaded, or back from Run.
Callable ==
    /\ loads < MaxLoads
    /\ \/ status \in {"new", "halted"}
       \/ status = "running" /\ steps = 0

LoadBytesAgain ==
    /\ Callable
    /\ \E data \in (IF loads = 0 THEN Hosted ELSE Reloads) :
          /\ Install(loadPadded(CPU, data.bytes, data.pad))
          /\ image' = data.bytes
          /\ size' = Len(data.bytes) + data.pad
    /\ loads' = loads + 1
    /\ steps' = 0
    /\ wrapped' = FALSE

LoadFile ==
    /\ Callable
    /\ loads > 0
    /\ \E file \in Files :
          /\ Install(loadFile(CPU, file))
          /\ image' = file.b.bytes
          /\ size' = Len(file.b.bytes) + file.b.pad
    /\ loads' = loads + 1
    /\ steps' = 0
    /\ wrapped' = FALSE

NextReused == LoadBytesAgain \/ LoadFile \/ Run

SpecReused == Init /\ [][NextReused]_vars

\* ------------------------------------------------------------ tokens

\* The keywords of package token, each written as its code points.
keywords ==
    (<<99, 109, 112>> :> "CMP") @@
    (<<105, 115, 95, 105, 110, 116, 101, 103, 101, 114>> :> "IS_INTEGER") @@
    (<<105, 115, 95, 115, 116, 114, 105, 110, 103>> :> "IS_STRING") @@
    (<<105, 110, 116, 50, 115, 116, 114, 105, 110, 103>> :> "INT2STRING") @@
    (<<115, 116, 114, 105, 110, 103, 50, 105, 110, 116>> :> "STRING2INT") @@
    (<<115, 116, 111, 114, 101>> :> "STORE") @@
    (<<112, 114, 105, 110, 116, 95, 105, 110, 116>> :> "PRINT_INT") @@
    (<<112, 114, 105, 110, 116, 95, 115, 116, 114>> :> "PRINT_STR") @@
    (<<97, 100, 100>> :> "ADD") @@
    (<<115, 117, 98>> :> "SUB") @@
    (<<109, 117, 108>> :> "MUL") @@
    (<<100, 105, 118>> :> "DIV") @@
    (<<105, 110, 99>> :> "INC") @@
    (<<100, 101, 99>> :> "DEC") @@
    (<<99, 97, 108, 108>> :> "CALL") @@
    (<<103, 111, 116, 111>> :> "GOTO") @@
    (<<106, 109, 112>> :> "JMP") @@
    (<<106, 109, 112, 110, 122>> :> "JMPNZ") @@
    (<<106, 109, 112, 122>> :> "JMPZ") @@
    (<<114, 101, 116>> :> "RET") @@
    (<<112, 117, 115, 104>> :> "PUSH") @@
    (<<112, 111, 112>> :> "POP") @@
    (<<112, 101, 101, 107>> :> "PEEK") @@
    (<<112, 111, 107, 101>> :> "POKE") @@
    (<<101, 120, 105, 116>> :> "EXIT") @@
    (<<99, 111, 110, 99, 97, 116>> :> "CONCAT") @@
    (<<68, 65, 84, 65>> :> "DATA") @@
    (<<68, 66>> :> "DB") @@
    (<<109, 101, 109, 99, 112, 121>> :> "MEMCPY") @@
    (<<110, 111, 112>> :> "NOP") @@
    (<<114, 97, 110, 100, 111, 109>> :> "RANDOM") @@
    (<<115, 121, 115, 116, 101, 109>> :> "SYSTEM")

LookupIdentifier(identifier) ==
    IF identifier \in DOMAIN keywords THEN keywords[identifier] ELSE "IDENT"

Token(type, literal) == [Type |-> type, Literal |-> literal]

\* The token NextToken returns at the end of the input.
EOFToken == Token("EOF", <<>>)

\* strings.TrimPrefix
TrimPrefix(str, prefix) ==
    IF Len(str) >= Len(prefix) /\ SubSeq(str, 1, Len(prefix)) = prefix
    THEN SubSeq(str, Len(prefix) + 1, Len(str))
    ELSE str

\* ------------------------------------------------------------ lexer

\* Places past the end of the input the cursor is followed to.
MaxPast == 2
\* Calls of NextToken on one lexer.
MaxTokens == 4
\* Characters of a generated input.
MaxChars == 3

\* The Lexer as one record.
L ==
    [characters |-> characters, position |-> position,
     readPosition |-> readPosition, ch |-> ch]

isWhitespace(r) == r = 32 \/ r = 9 \/ r = 10 \/ r = 13
isEmpty(r) == 0 = r
isIdentifier(r) == r # 44 /\ ~isWhitespace(r) /\ ~isEmpty(r)
isDigit(r) == 48 <= r /\ r <= 57
isHexDigit(r) ==
    \/ isDigit(r)
    \/ 97 <= r /\ r <= 102
    \/ 65 <= r /\ r <= 70
    \/ 120 = r \/ 88 = r

\* Past the end of the input the cursor is followed for MaxPast places and
\* then counted from the first place past the end again: the code compares
\* the cursor with len(characters) only, and cuts no text there.
Cursor(l, n) ==
    IF n > Len(l.characters) + MaxPast THEN Len(l.characters) + 1
    ELSE n

readCharStartsOver(l) ==
    [l EXCEPT !.ch = IF l.readPosition >= Len(l.characters) THEN 0
                     ELSE l.characters[l.readPosition + 1],
              !.position = l.readPosition,
              !.readPosition = IF l.readPosition >= Len(l.characters) THEN 0
                               ELSE l.readPosition + 1]

readChar(l) ==
    [l EXCEPT !.ch = IF l.readPosition >= Len(l.characters) THEN 0
                     ELSE l.characters[l.readPosition + 1],
              !.position = l.readPosition,
              !.readPosition = Cursor(l, l.readPosition + 1)]

peekChar(l) ==
    IF l.readPosition >= Len(l.characters) THEN 0
    ELSE l.characters[l.readPosition + 1]

\* string(l.characters[from:to])
Slice(l, from, to) == SubSeq(l.characters, from + 1, to)

\* The character readString keeps after a backslash.
Escaped(r) ==
    CASE r = 110 -> 10
      [] r = 114 -> 13
      [] r = 116 -> 9
      [] OTHER -> r

\* The lexer after a step that returns no token.
Scanned(l, at) ==
    /\ characters' = l.characters
    /\ position' = l.position
    /\ readPosition' = l.readPosition
    /\ ch' = l.ch
    /\ lexing' = at
    /\ UNCHANGED <<cpuVars, asmVars>>

\* NextToken returns tok, the lexer being l.
Returned(l, tok) ==
    /\ Scanned(l, "idle")
    /\ tokens' = Append(tokens, tok)
    /\ pos' = 0
    /\ text' = <<>>

\* The caller calls NextToken.
CallNextToken ==
    /\ lexing = "idle"
    /\ Len(tokens) < MaxTokens
    /\ Scanned(L, "skipWhiteSpace")
    /\ UNCHANGED <<pos, text, tokens>>

\* One turn of the loop of skipWhiteSpace, or its end.
SkipWhiteSpace ==
    /\ lexing = "skipWhiteSpace"
    /\ IF isWhitespace(ch) THEN Scanned(readChar(L), "skipWhiteSpace")
       ELSE Scanned(L, "NextToken")
    /\ UNCHANGED <<pos, text, tokens>>

AtCommentAnyHash == ch = 35

\* NextToken, white space skipped, stands at a "#" no digit follows.
AtComment == ch = 35 /\ ~isDigit(peekChar(L))

\* NextToken is about to switch on l.ch.
Switching == lexing = "NextToken" /\ ~AtComment

CaseComment ==
    /\ lexing = "NextToken"
    /\ AtComment
    /\ Scanned(L, "skipComment")
    /\ UNCHANGED <<pos, text, tokens>>

\* One turn of the loop of skipComment, or its end: skipWhiteSpace, then
\* NextToken anew.
SkipComment ==
    /\ lexing = "skipComment"
    /\ IF ch # 10 /\ ch # 0 THEN Scanned(readChar(L), "skipComment")
       ELSE Scanned(L, "skipWhiteSpace")
    /\ UNCHANGED <<pos, text, tokens>>

CaseComma ==
    /\ Switching
    /\ ch = 44
    /\ Returned(readChar(L), Token(",", <<ch>>))

CaseString ==
    /\ Switching
    /\ ch = 34
    /\ Scanned(L, "readString")
    /\ text' = <<>>
    /\ UNCHANGED <<pos, tokens>>

CaseLabel ==
    /\ Switching
    /\ ch = 58
    /\ Scanned(L, "readLabel")
    /\ pos' = position
    /\ UNCHANGED <<text, tokens>>

CaseEOF ==
    /\ Switching
    /\ ch = 0
    /\ Returned(readChar(L), Token("EOF", <<>>))

CaseDigit ==
    /\ Switching
    /\ ch \notin {44, 34, 58, 0}
    /\ isDigit(ch)
    /\ Scanned(L, "readNumber")
    /\ pos' = position
    /\ UNCHANGED <<text, tokens>>

CaseIdentifier ==
    /\ Switching
    /\ ch \notin {44, 34, 58, 0}
    /\ ~isDigit(ch)
    /\ Scanned(L, "readIdentifier")
    /\ pos' = position
    /\ UNCHANGED <<text, tokens>>

\* One turn of the loop of readIdentifier, or its end and NextToken's.
ReadIdentifier ==
    /\ lexing = "readIdentifier"
    /\ IF isIdentifier(ch)
       THEN /\ Scanned(readChar(L), "readIdentifier")
            /\ UNCHANGED <<pos, text, tokens>>
       ELSE Returned(L, Token(LookupIdentifier(Slice(L, pos, position)),
                              Slice(L, pos, position)))

\* One turn of the loop of readNumber, or its end and what readDecimal does
\* with the number.
ReadNumber ==
    /\ lexing = "readNumber"
    /\ IF isHexDigit(ch)
       THEN /\ Scanned(readChar(L), "readNumber")
            /\ UNCHANGED <<pos, text, tokens>>
       ELSE IF isEmpty(ch) \/ isWhitespace(ch) \/ ch = 44
       THEN Returned(L, Token("INT", Slice(L, pos, position)))
       ELSE /\ Scanned(L, "readDecimal")
            /\ text' = Slice(L, pos, position)
            /\ pos' = position
            /\ UNCHANGED tokens

\* One turn of the loop of readUntilWhitespace called by readDecimal, or its
\* end and readDecimal's.
ReadIllegal ==
    /\ lexing = "readDecimal"
    /\ IF ~isWhitespace(ch)
       THEN /\ Scanned(readChar(L), "readDecimal")
            /\ UNCHANGED <<pos, text, tokens>>
       ELSE Returned(L, Token("ILLEGAL", text \o Slice(L, pos, position)))

\* One turn of the loop of readUntilWhitespace called by readLabel, or its
\* end and NextToken's.
ReadLabel ==
    /\ lexing = "readLabel"
    /\ IF ~isWhitespace(ch)
       THEN /\ Scanned(readChar(L), "readLabel")
            /\ UNCHANGED <<pos, text, tokens>>
       ELSE Returned(readChar(L), Token("LABEL", Slice(L, pos, position)))

\* One turn of the loop of readString, or its end and NextToken's.  The NUL
\* characters gathered past the end of the input are not kept: no text
\* gathered there is ever returned.
ReadString ==
    /\ lexing = "readString"
    /\ LET l1 == readChar(L)
           l2 == IF l1.ch = 92
                 THEN [readChar(l1) EXCEPT !.ch = Escaped(@)]
                 ELSE l1
       IN  IF l1.ch = 34
           THEN Returned(readChar(l1), Token("STRING", text))
           ELSE /\ Scanned(l2, "readString")
                /\ text' = IF l2.position >= Len(characters) THEN text
                           ELSE Append(text, l2.ch)
                /\ UNCHANGED <<pos, tokens>>

\* The steps of a call of NextToken that is under way.
Scan ==
    \/ SkipWhiteSpace \/ CaseComment \/ SkipComment
    \/ CaseComma \/ CaseString \/ CaseLabel \/ CaseEOF
    \/ CaseDigit \/ CaseIdentifier
    \/ ReadIdentifier \/ ReadNumber \/ ReadIllegal \/ ReadLabel
    \/ ReadString

NextLexer == CallNextToken \/ Scan

\* The characters of the generated inputs: space, newline, comma, "#", the
\* double quote, ":", backslash, "1", "n" and "z".
Alphabet == { 32, 10, 44, 35, 34, 58, 92, 49, 110, 122 }

\* Every input of at most n characters of the alphabet.
RECURSIVE Texts(_)
Texts(n) ==
    IF n = 0 THEN { <<>> }
    ELSE Texts(n - 1) \cup { t \o <<r>> : t \in Texts(n - 1), r \in Alphabet }

\* "," and "inc #21\n", "# c\ninc #3 # d\n", ":a jmp a", "12z", "\"a\\n\" 1f,"
Inputs ==
    Texts(MaxChars)
        \cup { <<44>>,
               <<105, 110, 99, 32, 35, 50, 49, 10>>,
               <<35, 32, 99, 10, 105, 110, 99, 32, 35, 51, 32, 35, 32, 100, 10>>,
               <<58, 97, 32, 106, 109, 112, 32, 97>>,
               <<49, 50, 122>>,
               <<34, 97, 92, 110, 34, 32, 49, 102, 44>> }

\* lexer.New(input): the characters, then readChar.
InitLexer ==
    /\ NewCPU
    /\ NoCompiler
    /\ \E input \in Inputs :
          LET l == readChar([characters |-> input, position |-> 0,
                             readPosition |-> 0, ch |-> 0])
          IN  /\ characters = l.characters
              /\ position = l.position
              /\ readPosition = l.readPosition
              /\ ch = l.ch
    /\ lexing = "idle"
    /\ pos = 0
    /\ text = <<>>
    /\ tokens = <<>>

\* A call under way takes its next step; the caller need not call again.
SpecLexer == InitLexer /\ [][NextLexer]_vars /\ WF_vars(Scan)

\* ------------------------------------------------------------ assembler

\* The Compiler as one record, the form the emitters below work on.
P ==
    [stream |-> stream, curToken |-> curToken, peekToken |-> peekToken,
     bytecode |-> bytecode, labels |-> labels, fixups |-> fixups,
     phase |-> phase]

\* nextToken, its lexer returning the tokens of the stream and then EOF.
nextToken(p) ==
    [p EXCEPT !.curToken = p.peekToken,
              !.peekToken = IF p.stream = <<>> THEN EOFToken
                            ELSE Head(p.stream),
              !.stream = IF p.stream = <<>> THEN <<>> ELSE Tail(p.stream)]

\* New: empty tables, then nextToken twice.
New(l) ==
    nextToken(nextToken(
        [stream |-> l,
         curToken |-> Token("", <<>>), peekToken |-> Token("", <<>>),
         bytecode |-> <<>>, labels |-> <<>>, fixups |-> <<>>,
         phase |-> "compile"]))

\* expectPeek(t) answers peekTokenIs(p, t) and, when that holds, has moved
\* to the next token.
peekTokenIs(p, t) == p.peekToken.Type = t
expectPeek(p, t) == IF peekTokenIs(p, t) THEN nextToken(p) ELSE p

\* getRegister: the text after "#" through strconv.Atoi (a panic when that
\* fails), then the conversion to byte.
getRegister(input) ==
    LET num == TrimPrefix(input, <<35>>)
    IN  IF AtoiOK(num) THEN [ok |-> TRUE, byte |-> Atoi(num) % 256]
        ELSE [ok |-> FALSE, byte |-> 0]

Emit(p, bytes) == [p EXCEPT !.bytecode = @ \o bytes]

\* case token.LABEL
labelDef(p) ==
    [p EXCEPT !.labels =
        (TrimPrefix(p.curToken.Literal, <<58>>) :> Len(p.bytecode)) @@ @]

\* The emitters of one register operand: incOp, decOp, randOp, pushOp,
\* popOp, isStrOp, str2IntOp, int2StrOp.
registerOp(p, opcode) ==
    IF ~peekTokenIs(p, "IDENT") THEN p
    ELSE LET q == expectPeek(p, "IDENT")
             reg == getRegister(q.curToken.Literal)
         IN  IF ~reg.ok THEN [q EXCEPT !.phase = "panic"]
             ELSE Emit(q, <<opcode, reg.byte>>)

incOp(p) == registerOp(p, INC)
decOp(p) == registerOp(p, DEC)
randOp(p) == registerOp(p, INT_RANDOM)
pushOp(p) == registerOp(p, PUSH)
popOp(p) == registerOp(p, POP)
isStrOp(p) == registerOp(p, IS_STRING)
str2IntOp(p) == registerOp(p, STRING_TOINT)
int2StrOp(p) == registerOp(p, INT_TOSTRING)

\* peekOp and pokeOp: a register, a comma, a register.
registerPairOp(p, opcode) ==
    IF ~peekTokenIs(p, "IDENT") THEN p
    ELSE LET q == expectPeek(p, "IDENT")
             first == getRegister(q.curToken.Literal)
         IN  IF ~first.ok THEN [q EXCEPT !.phase = "panic"]
             ELSE IF ~peekTokenIs(q, ",") THEN q
             ELSE LET r == nextToken(expectPeek(q, ","))
                      addr == getRegister(r.curToken.Literal)
                  IN  IF r.curToken.Type # "IDENT" THEN r
                      ELSE IF ~addr.ok THEN [r EXCEPT !.phase = "panic"]
                      ELSE Emit(r, <<opcode, first.byte, addr.byte>>)

peekOp(p) == registerPairOp(p, PEEK)
pokeOp(p) == registerPairOp(p, POKE)

nopOp(p) == Emit(p, <<NOP>>)
exitOp(p) == Emit(p, <<EXIT>>)
retOp(p) == Emit(p, <<RET>>)

\* A label operand: the opcode, a fixup at the offset of the two bytes that
\* follow, and the two bytes.
labelOp(p, instruction) ==
    IF ~peekTokenIs(p, "IDENT") THEN p
    ELSE LET q == Emit(expectPeek(p, "IDENT"), <<instruction>>)
         IN  Emit([q EXCEPT !.fixups =
                       (Len(q.bytecode) :> q.curToken.Literal) @@ @],
                  <<0, 0>>)

jumpOp(p, instruction) == labelOp(p, instruction)
callOp(p) == labelOp(p, CALL)

\* value := p.labels[name]: a map answers 0 for a key it does not hold.
labelValue(l, name) == IF name \in DOMAIN l THEN l[name] ELSE 0

patchWide(code, addr, value) ==
    [code EXCEPT ![addr + 1] = value % 256,
                 ![addr + 2] = ((value - (value % 256)) \div 256) % 256,
                 ![addr] = 0]

patchBigEndian(code, addr, value) ==
    [code EXCEPT ![addr + 2] = value % 256,
                 ![addr + 1] = ((value - (value % 256)) \div 256) % 256]

\* The two assignments of the closing loop: p1 at addr, byte(p2) at addr+1
\* (offsets count from 0, the places of a sequence from 1).
patch(code, addr, value) ==
    [code EXCEPT ![addr + 1] = value % 256,
                 ![addr + 2] = ((value - (value % 256)) \div 256) % 256]

\* One turn of the closing loop, for the fixup at addr.
backpatch(p, addr) ==
    LET value == labelValue(p.labels, p.fixups[addr])
    IN  IF value = 0 THEN [p EXCEPT !.phase = "exit"]
        ELSE [p EXCEPT !.bytecode = patch(@, addr, value)]

\* The state of the assembler after a call on it.
Become(q) ==
    /\ stream' = q.stream
    /\ curToken' = q.curToken
    /\ peekToken' = q.peekToken
    /\ bytecode' = q.bytecode
    /\ labels' = q.labels
    /\ fixups' = q.fixups
    /\ phase' = q.phase
    /\ UNCHANGED <<cpuVars, lexVars>>

\* One turn of the main loop: the case of the token, then p.nextToken().
Handled(q) ==
    /\ Become(IF q.phase = "panic" THEN q ELSE nextToken(q))
    /\ UNCHANGED <<pending, emitted>>

\* The main loop is about to dispatch on a token of type t.
Compiling(t) == phase = "compile" /\ curToken.Type = t

EmitLabel == Compiling("LABEL") /\ Handled(labelDef(P))
EmitExit == Compiling("EXIT") /\ Handled(exitOp(P))
EmitInc == Compiling("INC") /\ Handled(incOp(P))
EmitDec == Compiling("DEC") /\ Handled(decOp(P))
EmitRandom == Compiling("RANDOM") /\ Handled(randOp(P))
EmitRet == Compiling("RET") /\ Handled(retOp(P))
EmitCall == Compiling("CALL") /\ Handled(callOp(P))
EmitIsString == Compiling("IS_STRING") /\ Handled(isStrOp(P))
EmitString2Int == Compiling("STRING2INT") /\ Handled(str2IntOp(P))
EmitInt2String == Compiling("INT2STRING") /\ Handled(int2StrOp(P))
EmitGoto == Compiling("GOTO") /\ Handled(jumpOp(P, JUMP))
EmitJmp == Compiling("JMP") /\ Handled(jumpOp(P, JUMP))
EmitJmpz == Compiling("JMPZ") /\ Handled(jumpOp(P, JUMP_Z))
EmitJmpnz == Compiling("JMPNZ") /\ Handled(jumpOp(P, JUMP_NZ))
EmitNop == Compiling("NOP") /\ Handled(nopOp(P))
EmitPeek == Compiling("PEEK") /\ Handled(peekOp(P))
EmitPoke == Compiling("POKE") /\ Handled(pokeOp(P))
EmitPush == Compiling("PUSH") /\ Handled(pushOp(P))
EmitPop == Compiling("POP") /\ Handled(popOp(P))

\* default: the token starts no statement ("Unhandled token").
Unhandled ==
    /\ phase = "compile"
    /\ curToken.Type \in {"IDENT", "INT", "STRING", ",", "ILLEGAL"}
    /\ Handled(P)

\* The main loop ends at EOF; the closing loop ranges over the fixups.
EndOfPass ==
    /\ Compiling("EOF")
    /\ phase' = "backpatch"
    /\ pending' = DOMAIN fixups
    /\ emitted' = bytecode
    /\ UNCHANGED <<stream, curToken, peekToken, bytecode, labels, fixups>>
    /\ UNCHANGED <<cpuVars, lexVars>>

\* A map is ranged over in no fixed order.
Backpatch ==
    /\ phase = "backpatch"
    /\ \E addr \in pending :
          /\ Become(backpatch(P, addr))
          /\ pending' = pending \ {addr}
    /\ UNCHANGED emitted

\* Compile returns.
Compiled ==
    /\ phase = "backpatch"
    /\ pending = {}
    /\ phase' = "done"
    /\ UNCHANGED <<stream, curToken, peekToken, bytecode, labels, fixups,
                   pending, emitted>>
    /\ UNCHANGED <<cpuVars, lexVars>>

Compile ==
    \/ EmitLabel \/ EmitExit \/ EmitInc \/ EmitDec \/ EmitRandom \/ EmitRet
    \/ EmitCall \/ EmitIsString \/ EmitString2Int \/ EmitInt2String
    \/ EmitGoto \/ EmitJmp \/ EmitJmpz \/ EmitJmpnz
    \/ EmitNop \/ EmitPeek \/ EmitPoke \/ EmitPush \/ EmitPop
    \/ Unhandled
    \/ EndOfPass \/ Backpatch \/ Compiled

\* Statements of one source.
MaxStatements == 2

\* The text of a register token and of a keyword.
Register(n) == Token("IDENT", <<35>> \o Itoa(n))
Keyword(type) ==
    Token(type, CHOOSE k \in DOMAIN keywords : keywords[k] = type)
\* The names a, b, c of labels: at their definition, and as an operand.
LabelAt(name) == Token("LABEL", <<58, name>>)
LabelRef(name) == Token("IDENT", <<name>>)

\* Register numbers of the statements: the ends of 0..15, the 21 of the
\* lexer's test, and numbers at and past the range of a byte.
RegisterNumbers == { 0, 15, 16, 21, 255, 256, 300 }

OneRegisterKeywords ==
    { "INC", "DEC", "RANDOM", "PUSH", "POP", "IS_STRING", "STRING2INT",
      "INT2STRING" }

Statements ==
    { <<LabelAt(n)>> : n \in {97, 98} }
      \cup { <<Keyword(k), LabelRef(n)>> :
                k \in {"GOTO", "JMP", "JMPZ", "JMPNZ", "CALL"},
                n \in {97, 98, 99} }
      \cup { <<Keyword(k)>> : k \in {"NOP", "EXIT", "RET"} }
      \cup { <<Keyword("INC"), Register(n)>> : n \in RegisterNumbers }
      \cup { <<Keyword(k), Register(3)>> : k \in OneRegisterKeywords }
      \cup { <<Keyword(k), Register(1), Token(",", <<44>>), Register(n)>> :
                k \in {"PEEK", "POKE"}, n \in {2, 21} }
      \cup { <<Keyword("PUSH")>>, <<Keyword("PEEK"), Register(1)>>,
             <<Token(",", <<44>>)>>, <<Token("ILLEGAL", <<49, 122>>)>> }

\* Every concatenation of at most n statements.
RECURSIVE Sources(_)
Sources(n) ==
    IF n = 0 THEN { <<>> }
    ELSE Sources(n - 1)
         \cup { p \o m : p \in Sources(n - 1), m \in Statements }

\* jmp b; :a call a; :b jmpz a; exit
SourceJumps ==
    <<Keyword("JMP"), LabelRef(98), LabelAt(97), Keyword("CALL"), LabelRef(97),
      LabelAt(98), Keyword("JMPZ"), LabelRef(97), Keyword("EXIT")>>

\* 260 times nop; :a jmp a
SourceFar ==
    [k \in 1..260 |-> Keyword("NOP")]
        \o <<LabelAt(97), Keyword("JMP"), LabelRef(97)>>

TokenStreams == Sources(MaxStatements) \cup { SourceJumps, SourceFar }

\* compiler.New(l) on a fresh lexer.
InitCompiler ==
    /\ NewCPU
    /\ NoLexer
    /\ \E l \in TokenStreams :
          LET p == New(l)
          IN  /\ stream = p.stream
              /\ curToken = p.curToken
              /\ peekToken = p.peekToken
              /\ bytecode = p.bytecode
              /\ labels = p.labels
              /\ fixups = p.fixups
              /\ phase = p.phase
    /\ pending = {}
    /\ emitted = <<>>

SpecCompiler == InitCompiler /\ [][Compile]_vars

\* ------------------------------------------------------------ a label's offset

\* Offsets next to 0 and next to 0xFFFF that a label is given.
MaxNear == 20

\* The offsets of a label: the ends of the range and where a byte carries.
LabelOffsets ==
    (0..MaxNear) \cup { 65535 - k : k \in 0..MaxNear }
        \cup { 255, 256, 257, 511, 512, 32767, 32768, 65280 }

\* The assembler at the end of the main pass over `call a`, the label a
\* standing at an offset v.
InitPatch ==
    /\ NewCPU
    /\ NoLexer
    /\ stream = <<>>
    /\ curToken = EOFToken
    /\ peekToken = EOFToken
    /\ bytecode = <<CALL, 0, 0>>
    /\ \E v \in LabelOffsets : labels = (<<97>> :> v)
    /\ fixups = (1 :> <<97>>)
    /\ phase = "compile"
    /\ pending = {}
    /\ emitted = <<>>

\* c.LoadBytes(e.Output())
LoadOutput ==
    /\ phase = "done"
    /\ status = "new"
    /\ Install(loadBytes(CPU, bytecode))
    /\ image' = bytecode
    /\ size' = Len(bytecode)
    /\ loads' = loads + 1
    /\ UNCHANGED <<steps, wrapped>>

NextPatch == EndOfPass \/ Backpatch \/ Compiled \/ LoadOutput \/ Call

SpecPatch == InitPatch /\ [][NextPatch]_vars

\* ------------------------------------------------------------ a run to its end
\* Run without a bound on the number of instructions, for images that can
\* neither jump nor write memory.

\* The handler the switch of Run selects for the opcode at IP, INT_RANDOM and
\* SYSTEM apart, applied to c.
Dispatch(c) ==
    LET op == Mem(c.mem, c.ip)
    IN  CASE op = EXIT -> opExit(c)
          [] op = INT_STORE -> opIntStore(c)
          [] op = INT_PRINT -> opIntPrint(c)
          [] op = INT_TOSTRING -> opIntToString(c)
          [] op = JUMP -> opJump(c)
          [] op = JUMP_Z -> opJumpZ(c)
          [] op = JUMP_NZ -> opJumpNZ(c)
          [] op = XOR -> opXor(c)
          [] op = ADD -> opAdd(c)
          [] op = SUB -> opSub(c)
          [] op = MUL -> opMul(c)
          [] op = DIV -> opDiv(c)
          [] op = INC -> opInc(c)
          [] op = DEC -> opDec(c)
          [] op = AND -> opAnd(c)
          [] op = OR -> opOr(c)
          [] op = STORE_STRING -> opStoreString(c)
          [] op = PRINT_STRING -> opPrintString(c)
          [] op = STRING_CONCAT -> opStringConcat(c)
          [] op = STRING_TOINT -> opStringToInt(c)
          [] op = CMP_REG -> opCmpReg(c)
          [] op = CMP_IMMEDIATE -> opCmpImmediate(c)
          [] op = CMP_STR -> opCmpStr(c)
          [] op = IS_STRING -> opIsString(c)
          [] op = IS_INT -> opIsInt(c)
          [] op = NOP -> opNop(c)
          [] op = STORE -> opStore(c)
          [] op = PEEK -> opPeek(c)
          [] op = POKE -> opPoke(c)
          [] op = MEMCPY -> opMemcpy(c)
          [] op = PUSH -> opPush(c)
          [] op = POP -> opPop(c)
          [] op = RET -> opRet(c)
          [] op = CALL -> opCall(c)
          [] OTHER -> opDefault(c)

\* The switch statement of one turn of the loop of Run, from the fetch on.
Landing(c) == IF ~MemOK(c.ip) THEN Panic(c, c.ip) ELSE Dispatch(c)

\* One turn of the loop of Run as a function of c alone: the switch
\* statement, then the wrap-around test.
TurnOf(c) ==
    LET d == Landing(c)
    IN  [d EXCEPT !.ip = IF d.status \in {"running", "halted"}
                         THEN wrapIP(@) ELSE @]

\* The opcode Run is about to execute draws on a random source or on a
\* spawned command.
DrawsOutside == MemOK(ip) /\ Mem(mem, ip) \in {INT_RANDOM, SYSTEM}

\* The opcodes that transfer control, and those that write memory.
Transfers == { JUMP, JUMP_Z, JUMP_NZ, CALL, RET }
MemoryWriters == { POKE, MEMCPY }

\* No byte of data is an opcode that transfers control or writes memory.
Straight(data) ==
    \A k \in 1..Len(data) : data[k] \notin Transfers \cup MemoryWriters

\* nop; cmp #1, a string of 0xFFFA bytes: the bytes 5 .. 0xFFFE.
ProgStringToEnd == <<NOP, CMP_STR, 1, 250, 255>>

\* Instructions of a generated image that runs to its end.
MaxStraight == 1

StraightImages ==
    { p \in Scenarios \cup Generated(MaxStraight) : Straight(p) }
        \cup { ProgStringToEnd }

LoadStraight ==
    /\ status = "new"
    /\ \E data \in StraightImages :
          /\ Install(loadBytes(CPU, data))
          /\ image' = data
          /\ size' = Len(data)
    /\ loads' = loads + 1
    /\ UNCHANGED <<steps, wrapped>>

\* The end of a turn of the loop whose switch statement left d.
Turned(d) ==
    /\ Install([d EXCEPT !.ip = IF d.status \in {"running", "halted"}
                                THEN wrapIP(@) ELSE @])
    /\ wrapped' = (d.status \in {"running", "halted"} /\ wraps(d.ip))
    /\ UNCHANGED <<image, loads, size, steps>>

Turn ==
    /\ status = "running"
    /\ ~DrawsOutside
    /\ Turned(Landing(CPU))

TurnRandom ==
    /\ status = "running"
    /\ MemOK(ip)
    /\ Mem(mem, ip) = INT_RANDOM
    /\ \E rnd \in RandomValues : Turned(opIntRandom(CPU, rnd))

TurnSystem ==
    /\ status = "running"
    /\ MemOK(ip)
    /\ Mem(mem, ip) = SYSTEM
    /\ \E printed \in SystemOutputs : Turned(opSystem(CPU, printed))

Turns == Turn \/ TurnRandom \/ TurnSystem

NextStraight == LoadStraight \/ Turns

\* The loop of Run goes on as long as run is true; a spawned command
\* returns.
SpecStraight == Init /\ [][NextStraight]_vars /\ WF_vars(Turns)

\* ------------------------------------------------------------ properties

\* The step executes one instruction of Run.
Stepped == steps' = steps + 1
\* The step executes the handler of opcode op.
Executing(op) == Fetching(op) /\ Stepped
\* The bytes of the loaded image hold no byte equal to op.
Without(op) == \A k \in 1..Len(image) : image[k] # op

\* C1: whenever Run is about to fetch the next opcode, 0 <= IP < 0xFFFF,
\* whatever the program has pushed on the stack.
C1_IPInRange == status = "running" => (0 <= ip /\ ip < MEMSIZE)

\* C2 as stated: once an instruction ended in the wrap-around branch, Run
\* executes no further instruction.
C2_StopsAtWrap == [][wrapped => ~Stepped]_vars

\* C2 as amended: Run returns exactly when the opcode it executed is EXIT;
\* an instruction that ends in the wrap-around branch leaves IP = 0 with
\* Run still running, so the next fetch is at address 0.
C2_WrapContinues ==
    [][Stepped =>
          /\ (status' = "halted") <=> (MemOK(ip) /\ Mem(mem, ip) = EXIT)
          /\ wrapped' => (ip' = 0 /\ status' = "running")]_vars

\* The image `jmp 0xFFFF` has executed its jump a second time, after the
\* first one wrapped around.
C2_Witness ==
    /\ image = <<JUMP, 255, 255>>
    /\ steps = 2
    /\ wrapped
    /\ status = "running"

\* C3: with calls only on the stack, RET transfers control to the address
\* pushed by the most recent CALL not yet returned from.
C3_RetLIFO ==
    [][(Executing(RET) /\ Without(PUSH) /\ ~Empty(stack)) =>
          LET a == stack[Len(stack)]
          IN  ip' = IF a >= MEMSIZE THEN 0 ELSE a]_vars

\* The IP Run fetches at after an instruction left it at a.
AfterWrap(a) == IF a >= MEMSIZE THEN 0 ELSE a
\* The operand byte k places after the opcode being fetched.
Operand(k) == Mem(mem, ip + k)
\* The 16-bit operand whose low byte is k places after the opcode.
Operand16(k) == Mem(mem, ip + k) + 256 * Mem(mem, ip + k + 1)
\* The n operand bytes after the opcode can be read and the first nregs of
\* them name registers.
Operands(n, nregs) ==
    /\ ip + n < MEMSIZE
    /\ \A k \in 1..nregs : Operand(k) < NREGS

\* C4: POP and RET on a non-empty stack take the element at the front and
\* keep the rest in order; PUSH and CALL append at the back.
C4_PopFront ==
    [][/\ (Executing(POP) /\ Operands(1, 1) /\ stack # <<>>) =>
              /\ status' = "running"
              /\ regs'[Operand(1)] = [regs[Operand(1)] EXCEPT
                                         !.i = Head(stack), !.t = "int"]
              /\ stack' = Tail(stack)
       /\ (Executing(RET) /\ stack # <<>>) =>
              /\ status' = "running"
              /\ ip' = AfterWrap(Head(stack))
              /\ stack' = Tail(stack)
       /\ (Executing(PUSH) /\ Operands(1, 1) /\ regs[Operand(1)].t = "int") =>
              /\ status' = "running"
              /\ stack' = stack \o <<regs[Operand(1)].i>>
       /\ (Executing(CALL) /\ Operands(2, 0)) =>
              /\ status' = "running"
              /\ stack' = stack \o <<ip + 3>>]_vars

\* ProgPushPop pushed 3 and then 4; its first POP has put 3, the older
\* value, in register 2 and left 4 on the stack.
C4_Witness ==
    /\ image = ProgPushPop
    /\ steps = 5
    /\ status = "running"
    /\ regs[2].i = 3
    /\ stack = <<4>>

\* C5: CALL pushes the address after its operand and jumps; a RET that
\* finds one entry on the stack jumps to it and leaves the stack empty; the
\* image of `call fn; exit; :fn store #1,42; print_int #1; ret` prints 2A
\* and halts at its exit (address 3) after five instructions.
C5_CallRet ==
    /\ [][/\ (Executing(CALL) /\ Operands(2, 0)) =>
                 /\ status' = "running"
                 /\ stack' = Append(stack, ip + 3)
                 /\ Operand16(1) < MEMSIZE => ip' = Operand16(1)
          /\ (Executing(RET) /\ Len(stack) = 1) =>
                 /\ status' = "running"
                 /\ stack' = <<>>
                 /\ stack[1] < MEMSIZE => ip' = stack[1]]_vars
    /\ [](image = ProgCallRet =>
             /\ status \in {"running", "halted"}
             /\ steps <= 5
             /\ status = "halted" =>
                    (out = <<50, 65>> /\ ip = 3 /\ stack = <<>> /\ steps = 5))

\* The call/ret image has halted with 2A printed.
C5_Witness ==
    /\ image = ProgCallRet
    /\ status = "halted"
    /\ out = <<50, 65>>
    /\ regs[1].i = 42

\* C6 as stated: the loop image halts with 02, 01, 00 printed.
C6_LoopPrintsThree ==
    (image = ProgLoop /\ status = "halted") =>
        out = <<48, 50, 48, 49, 48, 48>>

\* C6 as amended: the loop image prints 02 once and halts at its exit
\* (address 15) after six instructions: `sub #0,#1,#1` yields 0 and sets Z
\* in the first iteration, so `jmpnz top` is not taken.
C6_LoopPrintsOnce ==
    image = ProgLoop =>
        /\ status \in {"running", "halted"}
        /\ steps <= 6
        /\ out \in {<<>>, <<48, 50>>}
        /\ status = "halted" =>
               /\ out = <<48, 50>>
               /\ steps = 6
               /\ ip = 15
               /\ z
               /\ regs[1].i = 2

\* The loop image has halted after one iteration.
C6_Witness ==
    /\ image = ProgLoop
    /\ status = "halted"
    /\ out = <<48, 50>>

\* C7: SUB dst,a,b on integer registers stores R[a] - R[b] as an integer
\* in R[dst], and a result that is zero or negative leaves Z true.
C7_Sub ==
    [][(/\ Executing(SUB)
        /\ Operands(3, 3)
        /\ regs[Operand(2)].t = "int"
        /\ regs[Operand(3)].t = "int") =>
          LET result == regs[Operand(2)].i - regs[Operand(3)].i
          IN  /\ status' = "running"
              /\ regs'[Operand(1)].t = "int"
              /\ regs'[Operand(1)].i = result
              /\ result <= 0 => z']_vars

\* ProgDiv has executed `sub #4,#3,#2` with R[3] = -2 and R[2] = 2: the
\* result is negative and Z is set.
C7_Witness ==
    /\ image = ProgDiv
    /\ steps = 6
    /\ regs[4].i = -4
    /\ regs[4].t = "int"
    /\ z

\* The string body of the CMP_STR being fetched.
OperandString ==
    [k \in 1..Operand16(2) |-> Mem(mem, ip + 3 + k)]

\* C8: CMP_REG on registers of one kind, CMP_IMM, CMP_STR, IS_STRING and
\* IS_INT complete without a trap and leave Z equal to the truth value of
\* their predicate, whatever Z was.
C8_CompareSetsZ ==
    [][/\ (/\ Executing(CMP_REG)
           /\ Operands(2, 2)
           /\ regs[Operand(1)].t = regs[Operand(2)].t) =>
              /\ status' = "running"
              /\ z' = IF regs[Operand(1)].t = "int"
                      THEN regs[Operand(1)].i = regs[Operand(2)].i
                      ELSE regs[Operand(1)].s = regs[Operand(2)].s
       /\ (Executing(CMP_IMMEDIATE) /\ Operands(3, 1)) =>
              /\ status' = "running"
              /\ z' = (/\ regs[Operand(1)].t = "int"
                       /\ regs[Operand(1)].i = Operand16(2))
       /\ (Executing(CMP_STR) /\ Operands(3, 1)
                              /\ ip + 3 + Operand16(2) < MEMSIZE) =>
              /\ status' = "running"
              /\ z' = (/\ regs[Operand(1)].t = "string"
                       /\ regs[Operand(1)].s = OperandString)
       /\ (Executing(IS_STRING) /\ Operands(1, 1)) =>
              /\ status' = "running"
              /\ z' = (regs[Operand(1)].t = "string")
       /\ (Executing(IS_INT) /\ Operands(1, 1)) =>
              /\ status' = "running"
              /\ z' = (regs[Operand(1)].t = "int")]_vars

\* `sub #3,#1,#1` set Z, then `is_string #1` on an integer register
\* cleared it.
C8_Witness ==
    /\ image = <<SUB, 3, 1, 1, IS_STRING, 1>>
    /\ steps = 2
    /\ status = "running"
    /\ ~z

\* The fetched instruction reads as an integer a register that holds a
\* string.
ReadsStringAsInt ==
    \/ /\ Operand(0) \in {INT_PRINT, INT_TOSTRING, INC, DEC, PUSH}
       /\ Operands(1, 1)
       /\ regs[Operand(1)].t = "string"
    \/ /\ Operand(0) \in {XOR, ADD, SUB, MUL, DIV, AND, OR}
       /\ Operands(3, 3)
       /\ \E k \in {2, 3} : regs[Operand(k)].t = "string"
    \/ /\ Operand(0) = PEEK
       /\ Operands(2, 2)
       /\ regs[Operand(2)].t = "string"
    \/ /\ Operand(0) = POKE
       /\ Operands(2, 2)
       /\ \E k \in {1, 2} : regs[Operand(k)].t = "string"
    \/ /\ Operand(0) = MEMCPY
       /\ Operands(3, 3)
       /\ \E k \in {1, 2, 3} : regs[Operand(k)].t = "string"

\* The fetched instruction reads as a string a register that holds an
\* integer.
ReadsIntAsString ==
    \/ /\ Operand(0) \in {PRINT_STRING, SYSTEM, STRING_TOINT}
       /\ Operands(1, 1)
       /\ regs[Operand(1)].t = "int"
    \/ /\ Operand(0) = STRING_CONCAT
       /\ Operands(3, 3)
       /\ \E k \in {2, 3} : regs[Operand(k)].t = "int"

\* C9: an instruction that reads a register as the kind it does not hold
\* traps, with no register, memory byte, stack entry or output written.
C9_WrongKindTraps ==
    [][(/\ Stepped
        /\ status = "running"
        /\ MemOK(ip)
        /\ (ReadsStringAsInt \/ ReadsIntAsString)) =>
          /\ status' = "fatal"
          /\ UNCHANGED <<regs, mem, stack, out>>]_vars

\* C10: DIV by zero, POP and RET on an empty stack and an undefined opcode
\* end the process: the trapping instruction writes neither its destination
\* register nor (RET) the IP, and no instruction follows a trap.
C10_TrapsEnd ==
    [][/\ status # "fatal"
       /\ (/\ Executing(DIV)
           /\ Operands(3, 3)
           /\ regs[Operand(2)].t = "int"
           /\ regs[Operand(3)].t = "int"
           /\ regs[Operand(3)].i = 0) =>
              (status' = "fatal" /\ UNCHANGED <<regs, stack, mem, out>>)
       /\ (Executing(POP) /\ Operands(1, 0) /\ stack = <<>>) =>
              (status' = "fatal" /\ UNCHANGED <<regs, stack, mem, out>>)
       /\ (Executing(RET) /\ stack = <<>>) =>
              (status' = "fatal" /\ UNCHANGED <<ip, regs, stack, mem, out>>)
       /\ (/\ Stepped
           /\ status = "running"
           /\ MemOK(ip)
           /\ Operand(0) \notin Opcodes) =>
              (status' = "fatal" /\ UNCHANGED <<ip, regs, stack, mem, out>>)
      ]_vars

\* `dec #0; div #0,#1,#2` trapped on R[2] = 0 and register 0 still holds
\* the -1 the DEC left.
C10_Witness ==
    /\ image = <<DEC, 0, DIV, 0, 1, 2>>
    /\ status = "fatal"
    /\ diag = ErrDivZero
    /\ regs[0].i = -1

\* ------------------------------------------------------------ the loader

\* A LoadBytes or LoadFile call has just returned, or ended the process.
JustLoaded == loads > 0 /\ steps = 0

\* C11: after Reset, and so after every LoadBytes and LoadFile, whatever the
\* CPU ran before, all sixteen registers are of kind int with value 0, the
\* stack is empty and IP is 0.
C11_ResetState ==
    JustLoaded =>
        /\ DOMAIN regs = 0..15
        /\ \A n \in DOMAIN regs : IsInt(regs[n]) /\ regs[n].i = 0
        /\ Empty(stack)
        /\ ip = 0

\* A second load, on a CPU whose first program left a string in a register.
C11_Witness ==
    /\ JustLoaded
    /\ loads = 2
    /\ \E n \in DOMAIN regs : regs[n].s # <<>>

\* C12: after LoadBytes(data), also on a CPU that loaded and ran another
\* program before, the memory holds data at 0..len(data)-1 and zero at every
\* address from len(data) to 0xFFFE.
C12_MemoryIsImage ==
    (JustLoaded /\ status = "running") =>
        /\ \A a \in 0..(Len(image) - 1) : Mem(mem, a) = image[a + 1]
        /\ \A a \in DOMAIN mem : a >= Len(image) => mem[a] = 0

\* The step is a load whose file, if it reads one, could be read.
Loading == loads' # loads /\ diag' # ErrReadFile

\* C13: LoadBytes and LoadFile end the process, copying nothing, for every
\* program of 0xFFFF bytes or more, and take every program of at most 0xFFFE
\* bytes, copying all of its bytes.
C13_LoadBoundary ==
    [][Loading =>
          IF size' >= 65535
          THEN status' = "fatal" /\ diag' = ErrTooLarge /\ mem' = mem
          ELSE /\ status' = "running"
               /\ \A a \in 0..(Len(image') - 1) : Mem(mem', a) = image'[a + 1]
               /\ \A a \in DOMAIN mem' :
                      (Len(image') <= a /\ a < size') => mem'[a] = 0]_vars

\* A program of 0xFFFF bytes was refused by a CPU that still holds the
\* program it took before.
C13_Witness ==
    /\ status = "fatal"
    /\ size = 65535
    /\ loads = 2
    /\ Mem(mem, 0) = NOP

\* ------------------------------------------------------------ MEMCPY

\* The memory after bytes k..(n - 1) of a copy that takes byte k from
\* (s + k) mod 0xFFFF to (d + k) mod 0xFFFF, in increasing order of k.
RECURSIVE CopiedMod(_, _, _, _, _)
CopiedMod(m, d, s, n, k) ==
    IF k >= n THEN m
    ELSE CopiedMod(MemSet(m, (d + k) % 65535, Mem(m, (s + k) % 65535)),
                   d, s, n, k + 1)

\* Two memories hold the same byte at every address.
SameMemory(m1, m2) ==
    \A a \in (DOMAIN m1) \cup (DOMAIN m2) : Mem(m1, a) = Mem(m2, a)

\* MEMCPY is fetched with its three operands naming registers that hold
\* non-negative integers.
MemcpyOfNaturals ==
    /\ Executing(MEMCPY)
    /\ CanRead(ip + 1, 3)
    /\ \A k \in 1..3 :
          /\ RegOK(Operand(k))
          /\ IsInt(regs[Operand(k)])
          /\ regs[Operand(k)].i >= 0

\* C14: MEMCPY with destination start d, source start s and length n, all
\* non-negative, copies for k = 0..n-1 in increasing order the byte at
\* (s + k) mod 0xFFFF to (d + k) mod 0xFFFF.
C14_MemcpyMod ==
    [][MemcpyOfNaturals =>
          SameMemory(mem', CopiedMod(mem, regs[Operand(1)].i,
                                     regs[Operand(2)].i,
                                     regs[Operand(3)].i, 0))]_vars

\* ------------------------------------------------------------ the assembler

\* C15: assembly ends with the undefined-label error exactly when some fixup
\* names a label that has no definition; a reference to a defined label,
\* also one at offset 0, is patched and assembly succeeds.
C15_UndefinedIffAbsent ==
    phase \in {"exit", "done"} =>
        (phase = "exit" <=>
            \E addr \in DOMAIN fixups : fixups[addr] \notin DOMAIN labels)

\* The offsets of the bytes that belong to a fixup.
Slots == UNION { {addr, addr + 1} : addr \in DOMAIN fixups }

\* C16: the closing loop gives the same bytes in whatever order it visits
\* the fixups, and changes no byte but the two of each fixup: every byte
\* outside the fixups stays what the main pass emitted, and at the end each
\* fixup holds the offset of its label, low byte first.
C16_OrderFree ==
    phase \in {"backpatch", "done", "exit"} =>
        /\ Len(bytecode) = Len(emitted)
        /\ \A k \in 0..(Len(bytecode) - 1) :
              k \notin Slots => bytecode[k + 1] = emitted[k + 1]
        /\ phase = "done" =>
              \A addr \in DOMAIN fixups :
                  /\ fixups[addr] \in DOMAIN labels
                  /\ bytecode[addr + 1] = labels[fixups[addr]] % 256
                  /\ bytecode[addr + 2] = labels[fixups[addr]] \div 256

\* Three fixups to two labels were patched, in some order.
C16_Witness ==
    /\ phase = "done"
    /\ Cardinality(DOMAIN fixups) = 3
    /\ Cardinality({ fixups[addr] : addr \in DOMAIN fixups }) = 2
    /\ bytecode # emitted

\* C17: for every label offset v in 0..0xFFFF the two bytes the closing loop
\* writes (v mod 256 first) are read back by read2Val as v, and read2Val
\* moves IP by 2: CALL, fetched at 0, reads v from the addresses 1 and 2,
\* pushes 3 and goes to v.
C17_RoundTrip ==
    /\ (status = "running" /\ steps = 0) =>
            read2Val(mem, 1) = labels[<<97>>]
    /\ (status = "running" /\ steps = 1) =>
            /\ stack = <<3>>
            /\ ip = IF labels[<<97>>] = 65535 THEN 0 ELSE labels[<<97>>]

\* The offset 0xFFFE went through the closing loop and through CALL.
C17_Witness ==
    /\ status = "running"
    /\ steps = 1
    /\ labels[<<97>>] = 65534
    /\ ip = 65534

\* The register operands the step appends to the bytecode.
RegisterOperands ==
    IF curToken.Type \in OneRegisterKeywords
       /\ Len(bytecode') = Len(bytecode) + 2
    THEN { bytecode'[Len(bytecode')] }
    ELSE IF curToken.Type \in {"PEEK", "POKE"}
            /\ Len(bytecode') = Len(bytecode) + 3
    THEN { bytecode'[Len(bytecode') - 1], bytecode'[Len(bytecode')] }
    ELSE {}

\* C18: every register operand the assembler emits is in 0..15, for every
\* register token #N the lexer produces.
C18_RegisterBytes ==
    [][phase = "compile" => \A b \in RegisterOperands : b \in 0..15]_vars

\* ------------------------------------------------------------ the lexer

\* C19: NextToken returns a token after finitely many steps of the cursor,
\* for every finite input, also one that ends right after a label, after an
\* ILLEGAL number or inside a string: a call under way always returns.
C19_NextTokenReturns == (lexing # "idle") ~> (lexing = "idle")

RECURSIVE RunFrom(_, _)
RunFrom(input, from) ==
    IF from >= Len(input) \/ isWhitespace(input[from + 1])
       \/ input[from + 1] = 44
    THEN <<>>
    ELSE <<input[from + 1]>> \o RunFrom(input, from + 1)

\* NextToken stands at a "#" where a token starts.
AtHash == lexing = "NextToken" /\ ch = 35

Core(c) == [c EXCEPT !.out = <<>>, !.diag = ""]

C23_StoreDirection ==
    [][(Executing(STORE) /\ Operands(2, 2)) =>
          LET p == Operand(1)
              q == Operand(2)
          IN  /\ status' = "running"
              /\ regs'[q] = regs[p]
              /\ \A r \in 0..(NREGS - 1) : r # q => regs'[r] = regs[r]]_vars

\* `store #1,"..."; store 1,2` has run: register 2 holds the string of
\* register 1 and its kind, register 1 still holds it.
C23_Witness ==
    /\ Len(image) >= 3
    /\ SubSeq(image, Len(image) - 2, Len(image)) = <<STORE, 1, 2>>
    /\ ip = Len(image)
    /\ status = "running"
    /\ regs[1].t = "string"
    /\ regs[1].s # <<>>
    /\ regs[2] = regs[1]

\* The opcodes whose handler writes an integer, and a string, to the register
\* its first operand names.
IntWriters ==
    { INT_STORE, XOR, ADD, SUB, MUL, DIV, INC, DEC, AND, OR, INT_RANDOM,
      STRING_TOINT, PEEK, POP }
StringWriters == { STORE_STRING, STRING_CONCAT, INT_TOSTRING }

\* C24: each register's kind is the kind of the last value written to it: an
\* instruction that completes sets the kind of its destination to int (the
\* integer writers), to string (the string writers) or to the kind of the
\* copied register (STORE), and every other register, and every register
\* when the instruction traps, keeps its kind.
C24_KindOfLastWrite ==
    [][Stepped =>
          LET op == Operand(0)
              done == MemOK(ip) /\ status' = "running"
          IN  \A r \in 0..(NREGS - 1) :
                 regs'[r].t =
                    CASE done /\ op \in IntWriters /\ r = Operand(1)
                            -> "int"
                      [] done /\ op \in StringWriters /\ r = Operand(1)
                            -> "string"
                      [] done /\ op = STORE /\ r = Operand(2)
                            -> regs[Operand(1)].t
                      [] OTHER -> regs[r].t]_vars

\* `store #1,7; int2string #1; ... string2int #1; ...` ran to its EXIT:
\* register 1 was written an integer, a string and an integer again, and is
\* an int that still has the string "7" in its string slot.
C24_Witness ==
    /\ image = ProgCmpStale
    /\ status = "halted"
    /\ regs[1].t = "int"
    /\ regs[1].s = <<55>>

\* The opcodes without operands.
Bare == { EXIT, NOP, RET }

\* The index of the opcode fetch is an index of the memory.
FetchInRange == [][Stepped => MemOK(ip)]_vars

\* The index of the first operand byte, read after c.ip++, is an index of the
\* memory.
OperandInRange ==
    [][(Stepped /\ MemOK(ip) /\ Operand(0) \in Opcodes \ Bare) =>
          MemOK(ip + 1)]_vars

\* The address PEEK and POKE take from the register their second operand
\* names is an index of the memory.
AddressInRange ==
    [][((Executing(PEEK) \/ Executing(POKE)) /\ Operands(2, 2)) =>
          MemOK(regs[Operand(2)].i)]_vars

\* The body bytes readString reads for STORE_STRING and CMP_STR, which
\* follow the register byte and the two length bytes, are in the memory.
BodyInRange ==
    [][((Executing(STORE_STRING) \/ Executing(CMP_STR)) /\ Operands(3, 1)) =>
          \A k \in 1..Operand16(2) : MemOK(ip + 3 + k)]_vars

\* C25: every index Run uses to read or write memory lies in 0 .. 0xFFFE:
\* the opcode's, the operand bytes', the body bytes' of readString and the
\* addresses PEEK and POKE take from a register.
C25_MemoryIndices ==
    FetchInRange /\ OperandInRange /\ AddressInRange /\ BodyInRange

\* The opcodes whose one operand byte is used at once as an index of the
\* register file.
OneRegister ==
    { INT_PRINT, INT_TOSTRING, INT_RANDOM, INC, DEC, PRINT_STRING, SYSTEM,
      STRING_TOINT, IS_STRING, IS_INT, PUSH }

\* The register byte of INT_STORE is an index of the register file.
StoreRegisterInRange ==
    [][(Executing(INT_STORE) /\ Operands(3, 0)) => RegOK(Operand(1))]_vars

\* The register byte of a one-register instruction is an index of the
\* register file.
OneRegisterInRange ==
    [][(Stepped /\ MemOK(ip) /\ Operand(0) \in OneRegister
          /\ Operands(1, 0)) => RegOK(Operand(1))]_vars

\* C26: every register index Run decodes from an operand byte and uses on
\* the register file is in 0 .. 15, whatever image was loaded.
C26_RegisterIndices == StoreRegisterInRange /\ OneRegisterInRange

\* The opcodes whose handler assigns the Z flag.
ZWriters == { SUB, CMP_REG, CMP_IMMEDIATE, CMP_STR, IS_STRING, IS_INT }

\* C27: only SUB, CMP_REG, CMP_IMMEDIATE, CMP_STR, IS_STRING and IS_INT
\* change the Z flag: an instruction of any other opcode leaves Z as it
\* was, and so does a SUB whose result is strictly positive.
C27_ZWriters ==
    [][/\ (Stepped /\ ~(MemOK(ip) /\ Operand(0) \in ZWriters)) => z' = z
       /\ (/\ Executing(SUB)
           /\ Operands(3, 3)
           /\ regs[Operand(2)].t = "int"
           /\ regs[Operand(3)].t = "int"
           /\ regs[Operand(2)].i - regs[Operand(3)].i > 0) =>
              (status' = "running" /\ z' = z)]_vars

\* ProgDiv has executed `sub #4,#3,#2`, which set Z on -4, and then
\* `sub #5,#1,#2` with the result 5, which left Z set.
C27_Witness ==
    /\ image = ProgDiv
    /\ status = "running"
    /\ regs[4].i = -4
    /\ regs[5].i = 5
    /\ z

\* Run is over: EXIT, a trap or a panic of the runtime.
Ended == status \in {"halted", "fatal", "panic"}

====
